---- MODULE Spec2Model ----
(***************************************************************************)
(* mframe: an in-memory, TTL-bounded DataFrame with four typed secondary   *)
(* indexes (Strings, Numerics, Booleans, Times), a type registry (Keys),   *)
(* a background cleaner and predicate filters.                             *)
(*                                                                         *)
(* A store is a record with the fields of the Go struct DataFrame.  Every  *)
(* public operation runs under the store's RWMutex (Lock/defer Unlock or   *)
(* RLock/defer RUnlock), so each one is a single atomic action; the        *)
(* cleaner and Append release the lock between rows and take one step per  *)
(* row.                                                                    *)
(***************************************************************************)
EXTENDS Naturals, Integers, Sequences, FiniteSets, TLC

VARIABLES scanNow, d, df, res, snap, now, nextId, cleaner, toRemove, app, acc, last, stop, rx, lk, ex, found, ap

vars == <<scanNow, d, df, res, snap, now, nextId, cleaner, toRemove, app, acc, last, stop, rx, lk, ex, found, ap>>

(***************************************************************************)
(* Bounds of the model.                                                    *)
(***************************************************************************)
MaxRows == 2
MaxTime == 2
InitTTL == 1

(***************************************************************************)
(* KeyType (dataframe.go).                                                 *)
(***************************************************************************)
String == 1
Numeric == 2
Boolean == 3
Time == 4

(***************************************************************************)
(* Finite maps.                                                            *)
(***************************************************************************)
EmptyMap == [x \in {} |-> 0]

MapDelete(m, k) == [x \in (DOMAIN m) \ {k} |-> m[x]]

MapPut(m, k, v) == [x \in (DOMAIN m) \cup {k} |-> IF x = k THEN v ELSE m[x]]

(***************************************************************************)
(* Values held in a Row (interface{} holding string, float64 or bool).     *)
(***************************************************************************)
StrVal(s) == [t |-> String, s |-> s, n |-> 0, b |-> FALSE]
NumVal(n) == [t |-> Numeric, s |-> "", n |-> n, b |-> FALSE]
BoolVal(b) == [t |-> Boolean, s |-> "", n |-> 0, b |-> b]

(***************************************************************************)
(* Dynamic input values: kind is the reflect type string index switches    *)
(* on; s, n, b carry the payload; m carries the entries of a nested map    *)
(* or the elements of a list.                                              *)
(***************************************************************************)
GoString(s) == [kind |-> "string", s |-> s, n |-> 0, b |-> FALSE, m |-> <<>>]
GoFloat64(n) == [kind |-> "float64", s |-> "", n |-> n, b |-> FALSE, m |-> <<>>]
GoInt(n) == [kind |-> "int", s |-> "", n |-> n, b |-> FALSE, m |-> <<>>]
GoInt64(n) == [kind |-> "int64", s |-> "", n |-> n, b |-> FALSE, m |-> <<>>]
GoFloat32(n) == [kind |-> "float32", s |-> "", n |-> n, b |-> FALSE, m |-> <<>>]
GoBool(b) == [kind |-> "bool", s |-> "", n |-> 0, b |-> b, m |-> <<>>]
GoUUID(n) == [kind |-> "uuid.UUID", s |-> "", n |-> n, b |-> FALSE, m |-> <<>>]
GoTime(n) == [kind |-> "time.Time", s |-> "", n |-> n, b |-> FALSE, m |-> <<>>]
GoNil == [kind |-> "nil", s |-> "", n |-> 0, b |-> FALSE, m |-> <<>>]
GoMap(m) == [kind |-> "map[string]interface {}", s |-> "", n |-> 0, b |-> FALSE, m |-> m]
GoList(m) == [kind |-> "[]interface {}", s |-> "", n |-> 0, b |-> FALSE, m |-> m]
KV(k, v) == [k |-> k, v |-> v]

\* uuid.UUID.String(): the canonical text of the uuid numbered n.
UUIDString(n) == "uuid-" \o ToString(n)

(***************************************************************************)
(* DataFrame.Init.                                                         *)
(***************************************************************************)
NewStore(ttl) ==
    [Data |-> EmptyMap, Keys |-> EmptyMap, Strings |-> EmptyMap,
     Numerics |-> EmptyMap, Booleans |-> EmptyMap, Times |-> EmptyMap,
     ExpireAt |-> EmptyMap, TTL |-> ttl, Version |-> 1]

(***************************************************************************)
(* addMapping: ok is FALSE when keyName is committed to another type.      *)
(***************************************************************************)
\* addMapping without the comparison with the committed type.
addMappingUnchecked(st, keyName, keyType) == TRUE

addMappingOk(st, keyName, keyType) ==
    ~(keyName \in DOMAIN st.Keys /\ st.Keys[keyName] # keyType)

addMapping(st, keyName, keyType) ==
    IF addMappingOk(st, keyName, keyType)
    THEN [st EXCEPT !.Keys = MapPut(st.Keys, keyName, keyType)]
    ELSE st

\* idx[key][value][id] = true, creating the inner maps when missing.
IndexAdd(idx, key, value, id) ==
    LET byValue == IF key \in DOMAIN idx THEN idx[key] ELSE EmptyMap
        ids == IF value \in DOMAIN byValue THEN byValue[value] ELSE {}
    IN MapPut(idx, key, MapPut(byValue, value, ids \cup {id}))

(***************************************************************************)
(* index and num (insert.go).  c is [st |-> store, row |-> Row]; kv is     *)
(* the sequence of the map's entries in the order range visits them.       *)
(***************************************************************************)
indexString(c, kvKey, s, id) ==
    IF ~addMappingOk(c.st, kvKey, String) THEN c
    ELSE [st |-> [addMapping(c.st, kvKey, String) EXCEPT
                    !.Strings = IndexAdd(c.st.Strings, kvKey, s, id)],
          row |-> MapPut(c.row, kvKey, StrVal(s))]

num(c, keyName, value, id) ==
    IF ~addMappingOk(c.st, keyName, Numeric) THEN c
    ELSE [st |-> [addMapping(c.st, keyName, Numeric) EXCEPT
                    !.Numerics = IndexAdd(c.st.Numerics, keyName, value, id)],
          row |-> MapPut(c.row, keyName, NumVal(value))]

indexBool(c, kvKey, b, id) ==
    IF ~addMappingOk(c.st, kvKey, Boolean) THEN c
    ELSE [st |-> [addMapping(c.st, kvKey, Boolean) EXCEPT
                    !.Booleans = IndexAdd(c.st.Booleans, kvKey, b, id)],
          row |-> MapPut(c.row, kvKey, BoolVal(b))]

\* The time.Time case indexes the value and leaves the row untouched.
indexTime(c, kvKey, t, id) ==
    IF ~addMappingOk(c.st, kvKey, Time) THEN c
    ELSE [st |-> [addMapping(c.st, kvKey, Time) EXCEPT
                    !.Times = IndexAdd(c.st.Times, kvKey, t, id)],
          row |-> c.row]

ListEntries(l) == [j \in 1..Len(l) |-> KV(ToString(j - 1), l[j])]

RECURSIVE indexFrom(_, _, _, _, _)
indexFrom(c, kv, i, wrapKey, id) ==
    IF i > Len(kv) THEN c
    ELSE LET kvKey == IF wrapKey # "" THEN wrapKey \o "." \o kv[i].k ELSE kv[i].k
             v == kv[i].v
             c1 == CASE v.kind = "nil" -> c
                     [] v.kind = "map[string]interface {}" -> indexFrom(c, v.m, 1, kvKey, id)
                     [] v.kind = "[]interface {}" -> indexFrom(c, ListEntries(v.m), 1, kvKey, id)
                     [] v.kind = "string" -> indexString(c, kvKey, v.s, id)
                     [] v.kind \in {"float64", "int64", "int"} -> num(c, kvKey, v.n, id)
                     [] v.kind = "bool" -> indexBool(c, kvKey, v.b, id)
                     [] v.kind = "uuid.UUID" -> indexString(c, kvKey, UUIDString(v.n), id)
                     [] v.kind = "time.Time" -> indexTime(c, kvKey, v.n, id)
                     [] OTHER -> c
         IN indexFrom(c1, kv, i + 1, wrapKey, id)

index(c, kv, wrapKey, id) == indexFrom(c, kv, 1, wrapKey, id)

(***************************************************************************)
(* Insert: id is the uuid minted by uuid.New(), t is time.Now().           *)
(***************************************************************************)
InsertRow(st, data, id, t) ==
    LET c == index([st |-> st, row |-> EmptyMap], data, "", id)
    IN [c.st EXCEPT !.Data = MapPut(c.st.Data, id, c.row),
                    !.ExpireAt = MapPut(c.st.ExpireAt, id, t + c.st.TTL)]

(***************************************************************************)
(* RemoveElement: the three loops over Strings, Numerics and Booleans,     *)
(* then the cleanup of Keys.  Times is not visited.                        *)
(***************************************************************************)
IndexRemove(idx, id) ==
    LET stripped == [k \in DOMAIN idx |->
                        [v \in {w \in DOMAIN idx[k] : idx[k][w] \ {id} # {}} |->
                            idx[k][v] \ {id}]]
    IN [k \in {x \in DOMAIN stripped : DOMAIN stripped[x] # {}} |-> stripped[k]]

\* RemoveElement without delete(d.ExpireAt, id).
RemoveRowKeepExpireAt(st, id) ==
    LET strings == IndexRemove(st.Strings, id)
        numerics == IndexRemove(st.Numerics, id)
        booleans == IndexRemove(st.Booleans, id)
        keysInUse == DOMAIN strings \cup DOMAIN numerics \cup DOMAIN booleans
    IN [st EXCEPT !.Data = MapDelete(st.Data, id),
                  !.Strings = strings,
                  !.Numerics = numerics,
                  !.Booleans = booleans,
                  !.Keys = [k \in (DOMAIN st.Keys) \cap keysInUse |-> st.Keys[k]]]

RemoveRow(st, id) ==
    LET strings == IndexRemove(st.Strings, id)
        numerics == IndexRemove(st.Numerics, id)
        booleans == IndexRemove(st.Booleans, id)
        keysInUse == DOMAIN strings \cup DOMAIN numerics \cup DOMAIN booleans
    IN [st EXCEPT !.ExpireAt = MapDelete(st.ExpireAt, id),
                  !.Data = MapDelete(st.Data, id),
                  !.Strings = strings,
                  !.Numerics = numerics,
                  !.Booleans = booleans,
                  !.Keys = [k \in (DOMAIN st.Keys) \cap keysInUse |-> st.Keys[k]]]

(***************************************************************************)
(* The leaves index visits for an input, in visiting order: the dot-joined *)
(* path, the KeyType the switch assigns and the value it would index.      *)
(***************************************************************************)
Leaf(f, t, s, n, b) == [f |-> f, t |-> t, s |-> s, n |-> n, b |-> b]

RECURSIVE LeavesFrom(_, _, _)
LeavesFrom(kv, i, wrapKey) ==
    IF i > Len(kv) THEN <<>>
    ELSE LET kvKey == IF wrapKey # "" THEN wrapKey \o "." \o kv[i].k ELSE kv[i].k
             v == kv[i].v
             here == CASE v.kind = "map[string]interface {}" -> LeavesFrom(v.m, 1, kvKey)
                       [] v.kind = "[]interface {}" -> LeavesFrom(ListEntries(v.m), 1, kvKey)
                       [] v.kind = "string" -> <<Leaf(kvKey, String, v.s, 0, FALSE)>>
                       [] v.kind \in {"float64", "int64", "int"} ->
                            <<Leaf(kvKey, Numeric, "", v.n, FALSE)>>
                       [] v.kind = "bool" -> <<Leaf(kvKey, Boolean, "", 0, v.b)>>
                       [] v.kind = "uuid.UUID" -> <<Leaf(kvKey, String, UUIDString(v.n), 0, FALSE)>>
                       [] v.kind = "time.Time" -> <<Leaf(kvKey, Time, "", v.n, FALSE)>>
                       [] OTHER -> <<>>
         IN here \o LeavesFrom(kv, i + 1, wrapKey)

Leaves(kv) == LeavesFrom(kv, 1, "")

(***************************************************************************)
(* Reading the indexes.                                                    *)
(***************************************************************************)
IndexOf(st, t) ==
    CASE t = String -> st.Strings
      [] t = Numeric -> st.Numerics
      [] t = Boolean -> st.Booleans
      [] t = Time -> st.Times

LeafValue(l) ==
    CASE l.t = String -> l.s
      [] l.t = Numeric -> l.n
      [] l.t = Boolean -> l.b
      [] l.t = Time -> l.n

\* The id-set I_t[f][v], empty when f or v is absent.
IdSet(idx, f, v) ==
    IF f \in DOMAIN idx /\ v \in DOMAIN idx[f] THEN idx[f][v] ELSE {}

\* Every id found in some id-set of idx.
IdsIn(idx) == UNION {UNION {idx[f][v] : v \in DOMAIN idx[f]} : f \in DOMAIN idx}

KeyTypes == {String, Numeric, Boolean, Time}

IndexedIds(st) == UNION {IdsIn(IndexOf(st, t)) : t \in KeyTypes}

LeafSet(data) == {Leaves(data)[i] : i \in 1..Len(Leaves(data))}

\* The leaves of data that Insert indexed for id.
AcceptedLeaves(st, data, id) ==
    {l \in LeafSet(data) :
        id \in IdSet(IndexOf(st, l.t), l.f, LeafValue(l))}


\* The fields data carries only with a variant that differs from the commitment in st.
ConflictFields(st, data) ==
    {f \in {l.f : l \in LeafSet(data)} :
        /\ f \in DOMAIN st.Keys
        /\ \A l \in LeafSet(data) : l.f = f => l.t # st.Keys[f]}

\* The leaves of data that no commitment, old or made by the same row, conflicts with.
FreeLeaves(st, data) ==
    {l \in LeafSet(data) :
        /\ l.f \in DOMAIN st.Keys => st.Keys[l.f] = l.t
        /\ \A m \in LeafSet(data) : m.f = l.f => m.t = l.t}

(***************************************************************************)
(* Operator (filter.go).                                                   *)
(***************************************************************************)
Equals == 1
NotEquals == 2
Major == 3
Minor == 4
MajorEquals == 5
MinorEquals == 6
InList == 7
NotInList == 8
RegExp == 9
NotRegExp == 10
InCIDR == 11
NotInCIDR == 12
Contains == 13
NotContains == 14
StartsWith == 15
NotStartsWith == 16
EndsWith == 17
NotEndsWith == 18
Between == 19
NotBetween == 20

Operators == Equals..NotBetween

(***************************************************************************)
(* The value argument of Filter: kind is its dynamic type, l the elements  *)
(* of a slice.                                                             *)
(***************************************************************************)
ArgFloat64(n) == [kind |-> "float64", s |-> "", n |-> n, b |-> FALSE, l |-> <<>>]
ArgString(s) == [kind |-> "string", s |-> s, n |-> 0, b |-> FALSE, l |-> <<>>]
ArgBool(b) == [kind |-> "bool", s |-> "", n |-> 0, b |-> b, l |-> <<>>]
ArgFloat64s(l) == [kind |-> "[]float64", s |-> "", n |-> 0, b |-> FALSE, l |-> l]
ArgStrings(l) == [kind |-> "[]string", s |-> "", n |-> 0, b |-> FALSE, l |-> l]
ArgTimes(l) == [kind |-> "[]time.Time", s |-> "", n |-> 0, b |-> FALSE, l |-> l]

(***************************************************************************)
(* The comparison helpers of filter.go.                                    *)
(***************************************************************************)
EqualsF(left, right) == left = right

GreaterThanF(left, right) == left > right

InListF(value, list) == \E i \in 1..Len(list) : list[i] = value

ContainsF(value, substring) ==
    \E i \in 0..(Len(value) - Len(substring)) :
        Len(value) >= Len(substring) /\ SubSeq(value, i + 1, i + Len(substring)) = substring

HasPrefixF(value, prefix) ==
    Len(value) >= Len(prefix) /\ SubSeq(value, 1, Len(prefix)) = prefix

HasSuffixF(value, suffix) ==
    Len(value) >= Len(suffix) /\ SubSeq(value, Len(value) - Len(suffix) + 1, Len(value)) = suffix

\* strings.ToLower over the letters the model's strings use.
LowerChar(c) ==
    CASE c = "A" -> "a"
      [] c = "B" -> "b"
      [] c = "X" -> "x"
      [] c = "Y" -> "y"
      [] OTHER -> c

RECURSIVE ToLower(_)
ToLower(s) ==
    IF Len(s) = 0 THEN s ELSE LowerChar(SubSeq(s, 1, 1)) \o ToLower(SubSeq(s, 2, Len(s)))

ToLowerAll(l) == [i \in 1..Len(l) |-> ToLower(l[i])]

(***************************************************************************)
(* regexp.Compile and Regexp.MatchString for the patterns of the model:    *)
(* a literal, a literal anchored by ^ or by $, and patterns with an open   *)
(* parenthesis or bracket, which Compile rejects.                          *)
(***************************************************************************)
RegexpMeta == {"(", ")", "[", "]", "^", "$"}

HasMeta(p) == \E i \in 1..Len(p) : SubSeq(p, i, i) \in RegexpMeta

RegexpBody(p) ==
    IF HasPrefixF(p, "^") THEN SubSeq(p, 2, Len(p))
    ELSE IF HasSuffixF(p, "$") THEN SubSeq(p, 1, Len(p) - 1)
    ELSE p

RegexpCompiles(p) == ~HasMeta(RegexpBody(p))

RegexpMatch(p, s) ==
    IF HasPrefixF(p, "^") THEN HasPrefixF(s, RegexpBody(p))
    ELSE IF HasSuffixF(p, "$") THEN HasSuffixF(s, RegexpBody(p))
    ELSE ContainsF(s, p)

(***************************************************************************)
(* net.ParseIP, net.ParseCIDR and IPNet.Contains for the literals of the   *)
(* model; every other text fails to parse.                                 *)
(***************************************************************************)
ParseIP ==
    [s \in {"10.1.1.1", "10.2.0.1", "192.168.1.1"} |->
        CASE s = "10.1.1.1" -> <<10, 1, 1, 1>>
          [] s = "10.2.0.1" -> <<10, 2, 0, 1>>
          [] s = "192.168.1.1" -> <<192, 168, 1, 1>>]

ParseCIDR ==
    [s \in {"10.0.0.0/8", "10.1.0.0/16"} |->
        CASE s = "10.0.0.0/8" -> [ip |-> <<10, 0, 0, 0>>, octets |-> 1]
          [] s = "10.1.0.0/16" -> [ip |-> <<10, 1, 0, 0>>, octets |-> 2]]

SubnetContains(subnet, ip) == \A i \in 1..subnet.octets : ip[i] = subnet.ip[i]

\* InCIDRF reporting a match, and no error, for a CIDR that does not parse.
InCIDRFIgnoreErr(value, cidr) ==
    [m |-> \/ cidr \notin DOMAIN ParseCIDR
           \/ value \in DOMAIN ParseIP /\ SubnetContains(ParseCIDR[cidr], ParseIP[value]),
     err |-> FALSE]

\* InCIDRF: err is TRUE when the CIDR does not parse.
InCIDRF(value, cidr) ==
    IF cidr \notin DOMAIN ParseCIDR THEN [m |-> FALSE, err |-> TRUE]
    ELSE [m |-> value \in DOMAIN ParseIP /\ SubnetContains(ParseCIDR[cidr], ParseIP[value]),
          err |-> FALSE]

\* ValueOk without the assertion value.(bool) of the Boolean case.
ValueOkBoolUnchecked(keyType, operator, value) ==
    CASE keyType = Numeric /\ operator \in {Equals, NotEquals, Major, Minor, MajorEquals, MinorEquals} ->
            value.kind = "float64"
      [] keyType = Numeric /\ operator \in {InList, NotInList} -> value.kind = "[]float64"
      [] keyType = Numeric /\ operator \in {Between, NotBetween} ->
            value.kind = "[]float64" /\ Len(value.l) = 2
      [] keyType = String /\ operator \in {InList, NotInList} -> value.kind = "[]string"
      [] keyType = String /\ operator \in (Operators \ {Major, Minor, MajorEquals, MinorEquals,
                                                          InList, NotInList, Between, NotBetween}) ->
            value.kind = "string"
      [] keyType = Boolean -> TRUE
      [] keyType = Time /\ operator \in {Between, NotBetween} ->
            value.kind = "[]time.Time" /\ Len(value.l) = 2
      [] OTHER -> TRUE

(***************************************************************************)
(* Filter: the type assertion each case makes on value.                    *)
(***************************************************************************)
ValueOk(keyType, operator, value) ==
    CASE keyType = Numeric /\ operator \in {Equals, NotEquals, Major, Minor, MajorEquals, MinorEquals} ->
            value.kind = "float64"
      [] keyType = Numeric /\ operator \in {InList, NotInList} -> value.kind = "[]float64"
      [] keyType = Numeric /\ operator \in {Between, NotBetween} ->
            value.kind = "[]float64" /\ Len(value.l) = 2
      [] keyType = String /\ operator \in {InList, NotInList} -> value.kind = "[]string"
      [] keyType = String /\ operator \in (Operators \ {Major, Minor, MajorEquals, MinorEquals,
                                                          InList, NotInList, Between, NotBetween}) ->
            value.kind = "string"
      [] keyType = Boolean -> value.kind = "bool"
      [] keyType = Time /\ operator \in {Between, NotBetween} ->
            value.kind = "[]time.Time" /\ Len(value.l) = 2
      [] OTHER -> TRUE

\* The operators with a case under the switch on keyType.
Applicable(keyType, operator) ==
    CASE keyType = Numeric ->
            operator \in {Equals, NotEquals, Major, Minor, MajorEquals, MinorEquals,
                          InList, NotInList, Between, NotBetween}
      [] keyType = String ->
            operator \in (Operators \ {Major, Minor, MajorEquals, MinorEquals, Between, NotBetween})
      [] keyType = Boolean -> operator \in {Equals, NotEquals}
      [] keyType = Time -> operator \in {Between, NotBetween}
      [] OTHER -> FALSE

Lo(l) == IF l[1] > l[2] THEN l[2] ELSE l[1]
Hi(l) == IF l[1] > l[2] THEN l[1] ELSE l[2]

\* options[CaseSensitive] is present and false.
Fold(insensitive, s) == IF insensitive THEN ToLower(s) ELSE s

(***************************************************************************)
(* Filter: whether the rows indexed under keyValue are inserted into the   *)
(* result, for a value that passed the type assertion.                     *)
(***************************************************************************)
MatchNumeric(operator, keyValue, value) ==
    CASE operator = Equals -> keyValue = value.n
      [] operator = NotEquals -> ~EqualsF(keyValue, value.n)
      [] operator = Major -> GreaterThanF(keyValue, value.n)
      [] operator = Minor -> GreaterThanF(value.n, keyValue)
      [] operator = MajorEquals -> ~(~EqualsF(keyValue, value.n) /\ ~GreaterThanF(keyValue, value.n))
      [] operator = MinorEquals -> ~(~EqualsF(keyValue, value.n) /\ GreaterThanF(keyValue, value.n))
      [] operator = InList -> InListF(keyValue, value.l)
      [] operator = NotInList -> ~InListF(keyValue, value.l)
      [] operator = Between -> ~(keyValue < Lo(value.l) \/ keyValue > Hi(value.l))
      [] operator = NotBetween -> ~(keyValue >= Lo(value.l) /\ keyValue <= Hi(value.l))
      [] OTHER -> FALSE

MatchString(operator, keyValue, value, insensitive) ==
    CASE operator = Equals -> EqualsF(Fold(insensitive, keyValue), Fold(insensitive, value.s))
      [] operator = NotEquals -> ~EqualsF(Fold(insensitive, keyValue), Fold(insensitive, value.s))
      [] operator = RegExp -> RegexpCompiles(value.s) /\ RegexpMatch(value.s, keyValue)
      [] operator = NotRegExp -> RegexpCompiles(value.s) /\ ~RegexpMatch(value.s, keyValue)
      [] operator = InList ->
            InListF(Fold(insensitive, keyValue),
                    IF insensitive THEN ToLowerAll(value.l) ELSE value.l)
      [] operator = NotInList ->
            ~InListF(Fold(insensitive, keyValue),
                     IF insensitive THEN ToLowerAll(value.l) ELSE value.l)
      [] operator = InCIDR ->
            ~(InCIDRF(keyValue, value.s).err \/ ~InCIDRF(keyValue, value.s).m)
      [] operator = NotInCIDR ->
            ~(InCIDRF(keyValue, value.s).err \/ InCIDRF(keyValue, value.s).m)
      [] operator = Contains -> ContainsF(Fold(insensitive, keyValue), Fold(insensitive, value.s))
      [] operator = NotContains -> ~ContainsF(Fold(insensitive, keyValue), Fold(insensitive, value.s))
      [] operator = StartsWith -> HasPrefixF(Fold(insensitive, keyValue), Fold(insensitive, value.s))
      [] operator = NotStartsWith -> ~HasPrefixF(Fold(insensitive, keyValue), Fold(insensitive, value.s))
      [] operator = EndsWith -> HasSuffixF(Fold(insensitive, keyValue), Fold(insensitive, value.s))
      [] operator = NotEndsWith -> ~HasSuffixF(Fold(insensitive, keyValue), Fold(insensitive, value.s))
      [] OTHER -> FALSE

MatchBoolean(operator, keyValue, value) ==
    CASE operator = Equals -> keyValue = value.b
      [] operator = NotEquals -> ~EqualsF(value.b, keyValue)
      [] OTHER -> FALSE

MatchTime(operator, keyValue, value) ==
    CASE operator = Between -> ~(keyValue < Lo(value.l) \/ keyValue > Hi(value.l))
      [] operator = NotBetween -> ~(~(keyValue < Lo(value.l)) /\ ~(keyValue > Hi(value.l)))
      [] OTHER -> FALSE

Matches(keyType, operator, keyValue, value, insensitive) ==
    CASE keyType = Numeric -> MatchNumeric(operator, keyValue, value)
      [] keyType = String -> MatchString(operator, keyValue, value, insensitive)
      [] keyType = Boolean -> MatchBoolean(operator, keyValue, value)
      [] keyType = Time -> MatchTime(operator, keyValue, value)
      [] OTHER -> FALSE

(***************************************************************************)
(* Filter with a literal key: the ids whose rows are inserted into the     *)
(* result, one entry per results.Insert(d.Data[id]).  keyType is           *)
(* d.Keys[key], the zero KeyType when key is not committed.                *)
(***************************************************************************)
RECURSIVE SetToSeq(_)
SetToSeq(S) ==
    IF S = {} THEN <<>>
    ELSE LET x == CHOOSE y \in S : TRUE IN <<x>> \o SetToSeq(S \ {x})

RECURSIVE Concat(_)
Concat(ss) == IF Len(ss) = 0 THEN <<>> ELSE ss[1] \o Concat(Tail(ss))

KeyTypeOf(st, key) == IF key \in DOMAIN st.Keys THEN st.Keys[key] ELSE 0

FilterHits(st, operator, key, value, insensitive) ==
    LET keyType == KeyTypeOf(st, key)
        idx == IF keyType \in KeyTypes THEN IndexOf(st, keyType) ELSE EmptyMap
    IN IF ~Applicable(keyType, operator) \/ ~ValueOk(keyType, operator, value)
          \/ key \notin DOMAIN idx
       THEN <<>>
       ELSE LET keyValues == SetToSeq({kv \in DOMAIN idx[key] :
                                          Matches(keyType, operator, kv, value, insensitive)})
            IN Concat([i \in 1..Len(keyValues) |-> SetToSeq(idx[key][keyValues[i]])])

\* d.Data[id] as the argument of results.Insert: nil when id is not in Data.
RowAsInput(st, id) ==
    IF id \notin DOMAIN st.Data THEN <<>>
    ELSE LET row == st.Data[id]
             fields == SetToSeq(DOMAIN row)
         IN [i \in 1..Len(fields) |->
                KV(fields[i],
                   CASE row[fields[i]].t = String -> GoString(row[fields[i]].s)
                     [] row[fields[i]].t = Numeric -> GoFloat64(row[fields[i]].n)
                     [] row[fields[i]].t = Boolean -> GoBool(row[fields[i]].b))]

\* results.Init(d.TTL), then results.Insert(d.Data[id]) per hit; the i-th
\* row of the result gets the i-th fresh uuid.
RECURSIVE InsertHits(_, _, _, _, _)
InsertHits(results, st, hits, i, t) ==
    IF i > Len(hits) THEN results
    ELSE InsertHits(InsertRow(results, RowAsInput(st, hits[i]), i, t), st, hits, i + 1, t)

FilterStore(st, operator, key, value, insensitive, t) ==
    InsertHits(NewStore(st.TTL), st, FilterHits(st, operator, key, value, insensitive), 1, t)

(***************************************************************************)
(* Inputs of Insert.  A Go map is visited in any order, so an input with   *)
(* two entries appears once per order when the order can matter.           *)
(***************************************************************************)
NestedAB(s) == KV("a", GoMap(<<KV("b", GoString(s))>>))

InputRows ==
    { <<KV("f", GoString("x"))>>,
      <<KV("f", GoFloat64(1))>>,
      <<KV("f", GoTime(1))>>,
      <<KV("g", GoString("y")), KV("f", GoInt(2))>>,
      <<KV("g", GoBool(TRUE)), KV("f", GoTime(2))>>,
      <<KV("a.b", GoString("x")), NestedAB("y")>>,
      <<NestedAB("y"), KV("a.b", GoString("x"))>>,
      <<KV("f", GoNil), KV("l", GoList(<<GoUUID(1), GoFloat32(1)>>))>> }

NoOp == [op |-> "none", id |-> 0, conflicts |-> {}, err |-> FALSE]

\* No Filter result is held.
NoQuery == [operator |-> 0, key |-> "", value |-> ArgBool(FALSE), insensitive |-> FALSE]

NoResult == [store |-> NewStore(InitTTL), q |-> NoQuery, hits |-> <<>>]

\* The file the persistence calls are given: it does not exist yet.  format
\* is the encoding of its content, acc the value of acc when it was written.
NoFiles == [format |-> "none", content |-> <<>>, acc |-> EmptyMap]

\* No Append is running; pending holds the source rows range has yet to visit.
NoAppend == [active |-> FALSE, pending |-> {}]

(***************************************************************************)
(* The regex cache of d: regexCache, regexCacheSize and maxRegexCache, the *)
(* patterns and the maximum of the snapshot file, and the calls in flight. *)
(* getters[c] is the pattern caller c has compiled and is about to store,  *)
(* "" when c is not inside getCompiledRegex; load is the progress of the   *)
(* cache part of a Load; clearing is TRUE between the two assignments of   *)
(* ClearRegexCache.                                                        *)
(***************************************************************************)
DefaultRegexCache == 2

MaxCallers == 2

NoLoad == [phase |-> "idle", todo |-> {}]

NoRegexCache ==
    [cache |-> {}, size |-> 0, max |-> DefaultRegexCache, fresh |-> TRUE,
     file |-> [saved |-> FALSE, max |-> 0, patterns |-> {}],
     getters |-> [c \in 1..MaxCallers |-> ""],
     load |-> NoLoad, clearing |-> FALSE]

(***************************************************************************)
(* d.Locker as the concurrent callers see it.  writer is the Insert that   *)
(* holds the lock for writing, with the statements it has yet to run;      *)
(* calls counts the Insert calls that have returned.                       *)
(***************************************************************************)
NoWriter == [phase |-> "none", data |-> <<>>, id |-> 0]

NoLocker == [writer |-> NoWriter, calls |-> 0]

\* No Explain has returned yet.  matches is the number of committed keys a
\* pattern key matches, reported in Details; -1 when the key is literal.
NoExplain ==
    [q |-> NoQuery, KeyType |-> "", IndexUsed |-> FALSE, EstimatedRows |-> 0,
     TotalRows |-> 0, matches |-> -1]

\* The nil interface value, and what FindFirstByKey returns when it finds
\* nothing: (uuid.Nil, "", nil).  key is the argument of the call.
NilVal == [t |-> 0, s |-> "", n |-> 0, b |-> FALSE]

NotFound == [key |-> "", id |-> 0, name |-> "", value |-> NilVal]

\* The callers of Append and where each stands: "idle" outside the call,
\* "range" holding the read lock of src between two iterations, "lock"
\* inside recv.Insert(value) waiting for the write lock of recv.  pending
\* holds the rows of src still to visit, row the one being copied.
Procs == 1..MaxCallers

NoAppends ==
    [pc |-> [p \in Procs |-> "idle"], recv |-> [p \in Procs |-> ""],
     src |-> [p \in Procs |-> ""], pending |-> [p \in Procs |-> {}],
     row |-> [p \in Procs |-> 0]]

Init ==
    /\ d = NewStore(InitTTL)
    /\ df = NewStore(InitTTL)
    /\ res = NoResult
    /\ snap = NoFiles
    /\ now = 0
    /\ nextId = 1
    /\ cleaner = "off"
    /\ toRemove = {}
    /\ app = NoAppend
    /\ acc = EmptyMap
    /\ last = NoOp
    /\ stop = "idle"
    /\ rx = NoRegexCache
    /\ lk = NoLocker
    /\ ex = NoExplain
    /\ found = NotFound
    /\ ap = NoAppends
    /\ scanNow = 0

\* time.Now() advances.
Tick ==
    /\ now < MaxTime
    /\ now' = now + 1
    /\ UNCHANGED <<scanNow, ap, found, ex, lk, rx, stop, d, df, res, snap, nextId, cleaner, toRemove, app, acc, last>>

\* d.Insert(data).  A running Append keeps one fresh uuid per pending row.
Insert(data) ==
    /\ nextId + Cardinality(app.pending) <= MaxRows
    /\ d' = InsertRow(d, data, nextId, now)
    /\ nextId' = nextId + 1
    /\ acc' = MapPut(acc, nextId, AcceptedLeaves(d', data, nextId))
    /\ last' = [op |-> "Insert", id |-> nextId, conflicts |-> ConflictFields(d, data),
                err |-> FALSE]
    /\ UNCHANGED <<scanNow, ap, found, ex, lk, rx, stop, df, res, snap, now, cleaner, toRemove, app>>

\* d.RemoveElement(id), for the id of any row ever inserted.
RemoveElement(id) ==
    /\ id \in 1..(nextId - 1)
    /\ d' = RemoveRow(d, id)
    /\ acc' = MapDelete(acc, id)
    /\ last' = [op |-> "RemoveElement", id |-> id, conflicts |-> {}, err |-> FALSE]
    /\ UNCHANGED <<scanNow, ap, found, ex, lk, rx, stop, df, res, snap, now, nextId, cleaner, toRemove, app>>

\* d.StartCleaner(): go d.CleanExpired()
StartCleaner ==
    /\ cleaner = "off"
    /\ cleaner' = "select"
    /\ UNCHANGED <<scanNow, ap, found, ex, lk, rx, stop, d, df, res, snap, now, nextId, toRemove, app, acc, last>>

\* The ids CleanExpired collects under RLock: ExpireAt[k].Before(now).
Expired(st, t) == {k \in DOMAIN st.ExpireAt : st.ExpireAt[k] < t}

\* CleanExpired, case <-ticker.C: now := time.Now().UTC() and the scan of
\* ExpireAt.  scanNow is the local now while ids are left to remove.
CleanExpiredScan ==
    /\ cleaner = "select"
    /\ toRemove' = Expired(d, now)
    /\ scanNow' = IF toRemove' = {} THEN 0 ELSE now
    /\ cleaner' = IF toRemove' = {} THEN "select" ELSE "remove"
    /\ UNCHANGED <<ap, found, ex, lk, rx, stop, d, df, res, snap, now, nextId, app, acc, last>>

\* CleanExpired, one iteration of: for _, id := range toRemove { d.RemoveElement(id) }
CleanExpiredRemove ==
    /\ cleaner = "remove"
    /\ \E id \in toRemove :
         /\ d' = RemoveRow(d, id)
         /\ acc' = MapDelete(acc, id)
         /\ toRemove' = toRemove \ {id}
         /\ last' = [op |-> "Reap", id |-> id, conflicts |-> {}, err |-> FALSE]
    /\ scanNow' = IF toRemove' = {} THEN 0 ELSE scanNow
    /\ cleaner' = IF toRemove' = {} THEN "select" ELSE "remove"
    /\ UNCHANGED <<ap, found, ex, lk, rx, stop, df, res, snap, now, nextId, app>>

(***************************************************************************)
(* Filter.  res holds the store Filter returned, with the query and the    *)
(* source ids of its rows, until the caller drops it.                      *)
(***************************************************************************)
Query(operator, key, value) ==
    [operator |-> operator, key |-> key, value |-> value, insensitive |-> FALSE]

FilterInputRows ==
    { <<KV("s", GoString("Xy")), KV("n", GoInt(1))>>,
      <<KV("s", GoString("10.1.1.1")), KV("n", GoFloat64(2)), KV("b", GoBool(TRUE))>>,
      <<KV("t", GoTime(1)), KV("s", GoString("xy")), KV("b", GoBool(FALSE))>>,
      <<KV("t", GoTime(2))>> }

Queries ==
    { Query(Equals, "n", ArgFloat64(1)), Query(NotEquals, "n", ArgFloat64(1)),
      Query(Major, "n", ArgFloat64(1)), Query(Minor, "n", ArgFloat64(2)),
      Query(MajorEquals, "n", ArgFloat64(2)), Query(MinorEquals, "n", ArgFloat64(1)),
      Query(InList, "n", ArgFloat64s(<<1>>)), Query(NotInList, "n", ArgFloat64s(<<1>>)),
      Query(Between, "n", ArgFloat64s(<<2, 1>>)), Query(NotBetween, "n", ArgFloat64s(<<1, 1>>)),
      Query(Equals, "s", ArgString("Xy")), Query(NotEquals, "s", ArgString("Xy")),
      Query(RegExp, "s", ArgString("^X")), Query(NotRegExp, "s", ArgString("y$")),
      Query(InList, "s", ArgStrings(<<"xy">>)), Query(NotInList, "s", ArgStrings(<<"Xy">>)),
      Query(InCIDR, "s", ArgString("10.0.0.0/8")), Query(NotInCIDR, "s", ArgString("10.1.0.0/16")),
      Query(Contains, "s", ArgString("y")), Query(NotContains, "s", ArgString(".")),
      Query(StartsWith, "s", ArgString("X")), Query(NotStartsWith, "s", ArgString("10")),
      Query(EndsWith, "s", ArgString("y")), Query(NotEndsWith, "s", ArgString("1")),
      Query(Equals, "b", ArgBool(TRUE)), Query(NotEquals, "b", ArgBool(TRUE)),
      Query(Between, "t", ArgTimes(<<1, 2>>)), Query(Between, "t", ArgTimes(<<2, 2>>)),
      Query(NotBetween, "t", ArgTimes(<<1, 1>>)) }

(***************************************************************************)
(* Filter: the keys the query is evaluated on.  A key with '^', '[' or '('  *)
(* is compiled and selects every committed field whose name matches, none   *)
(* when it does not compile; any other key selects itself.                  *)
(***************************************************************************)
IsPattern(key) == ContainsF(key, "^") \/ ContainsF(key, "[") \/ ContainsF(key, "(")

FilterKeys(st, key) ==
    IF IsPattern(key)
    THEN IF RegexpCompiles(key) THEN {k \in DOMAIN st.Keys : RegexpMatch(key, k)} ELSE {}
    ELSE {key}

\* The orders in which range can visit the selected keys.
Orders(S) ==
    {o \in [1..Cardinality(S) -> S] : \A i, j \in 1..Cardinality(S) : o[i] = o[j] => i = j}

\* The case of key fails its type assertion on value: Filter returns at once.
\* A Boolean key asserts before the switch on operator.
AssertionFails(st, operator, key, value) ==
    /\ Applicable(KeyTypeOf(st, key), operator) \/ KeyTypeOf(st, key) = Boolean
    /\ ~ValueOk(KeyTypeOf(st, key), operator, value)

\* The ids inserted while the selected keys are visited in the given order.
RECURSIVE FilterHitsIn(_, _, _, _, _)
FilterHitsIn(st, operator, order, value, insensitive) ==
    IF Len(order) = 0 \/ AssertionFails(st, operator, order[1], value) THEN <<>>
    ELSE FilterHits(st, operator, order[1], value, insensitive)
            \o FilterHitsIn(st, operator, Tail(order), value, insensitive)

\* Filter that hands its rows over: the hits leave the source's Data.
FilterMoving(q) ==
    /\ \E order \in Orders(FilterKeys(d, q.key)) :
          LET hits == FilterHitsIn(d, q.operator, order, q.value, q.insensitive)
          IN /\ res' = [store |-> InsertHits(NewStore(d.TTL), d, hits, 1, now),
                        q |-> q,
                        hits |-> hits]
             /\ d' = [d EXCEPT !.Data = [r \in DOMAIN d.Data \ {hits[i] : i \in 1..Len(hits)} |->
                                            d.Data[r]]]
    /\ UNCHANGED <<scanNow, ap, found, ex, lk, rx, stop, df, snap, now, nextId, cleaner, toRemove, app, acc, last>>

\* res := d.Filter(q.operator, q.key, q.value, options)
Filter(q) ==
    /\ \E order \in Orders(FilterKeys(d, q.key)) :
          LET hits == FilterHitsIn(d, q.operator, order, q.value, q.insensitive)
          IN res' = [store |-> InsertHits(NewStore(d.TTL), d, hits, 1, now),
                     q |-> q,
                     hits |-> hits]
    /\ UNCHANGED <<scanNow, ap, found, ex, lk, rx, stop, d, df, snap, now, nextId, cleaner, toRemove, app, acc, last>>

\* The caller drops the result.
Discard ==
    /\ res.q # NoQuery
    /\ res' = NoResult
    /\ UNCHANGED <<scanNow, ap, found, ex, lk, rx, stop, d, df, snap, now, nextId, cleaner, toRemove, app, acc, last>>

FilterIdle == res.q = NoQuery

NextFilter ==
    \/ FilterIdle /\ Tick
    \/ FilterIdle /\ \E data \in FilterInputRows : Insert(data)
    \/ FilterIdle /\ \E id \in 1..MaxRows : RemoveElement(id)
    \/ FilterIdle /\ StartCleaner
    \/ FilterIdle /\ CleanExpiredScan
    \/ FilterIdle /\ CleanExpiredRemove
    \/ FilterIdle /\ \E q \in Queries : Filter(q)
    \/ Discard

SpecFilter == Init /\ [][NextFilter]_vars

\* InsertWithError without the checks on data.
InsertWithErrorUnchecked(data) == Insert(data)

(***************************************************************************)
(* InsertWithError: nil or empty data is refused, anything else is Insert. *)
(***************************************************************************)
InsertWithError(data) ==
    IF Len(data) = 0
    THEN /\ last' = [op |-> "InsertWithError", id |-> 0, conflicts |-> {}, err |-> TRUE]
         /\ UNCHANGED <<scanNow, ap, found, ex, lk, rx, stop, d, df, res, snap, now, nextId, cleaner, toRemove, app, acc>>
    ELSE Insert(data)

(***************************************************************************)
(* Append (append.go): d.Append(df, key).  The source df stays read-locked *)
(* for the whole loop; every iteration writes key into the source row and  *)
(* hands that row to d.Insert, which takes and releases d's lock.          *)
(***************************************************************************)
AppendKey == "k"

\* df.Insert(data): a row of the store that Append reads.
InsertSource(data) ==
    /\ ~app.active
    /\ nextId <= MaxRows
    /\ df' = InsertRow(df, data, nextId, now)
    /\ nextId' = nextId + 1
    /\ UNCHANGED <<scanNow, ap, found, ex, lk, rx, stop, d, res, snap, now, cleaner, toRemove, app, acc, last>>

\* df.Locker.RLock(); range df.Data starts.
AppendBegin ==
    /\ ~app.active
    /\ DOMAIN df.Data # {}
    /\ nextId + Cardinality(DOMAIN df.Data) <= MaxRows + 1
    /\ app' = [active |-> TRUE, pending |-> DOMAIN df.Data]
    /\ UNCHANGED <<scanNow, ap, found, ex, lk, rx, stop, d, df, res, snap, now, nextId, cleaner, toRemove, acc, last>>

\* The source row r after value["key"] = key.
AppendMark(st, r, key) ==
    [st EXCEPT !.Data = MapPut(st.Data, r, MapPut(st.Data[r], "key", StrVal(key)))]

\* One iteration: value["key"] = key; d.Insert(value).  RUnlock after the last.
AppendRow ==
    /\ app.active
    /\ \E r \in app.pending :
         /\ df' = AppendMark(df, r, AppendKey)
         /\ d' = InsertRow(d, RowAsInput(df', r), nextId, now)
         /\ acc' = MapPut(acc, nextId, AcceptedLeaves(d', RowAsInput(df', r), nextId))
         /\ last' = [op |-> "Append", id |-> nextId,
                     conflicts |-> ConflictFields(d, RowAsInput(df', r)),
                     err |-> FALSE]
         /\ app' = [active |-> app.pending # {r}, pending |-> app.pending \ {r}]
    /\ nextId' = nextId + 1
    /\ UNCHANGED <<scanNow, ap, found, ex, lk, rx, stop, res, snap, now, cleaner, toRemove>>

AppendInputRows ==
    { <<KV("s", GoString("x"))>>,
      <<KV("key", GoFloat64(1))>>,
      <<KV("t", GoTime(1)), KV("b", GoBool(TRUE))>> }

NextAppend ==
    \/ Tick
    \/ \E data \in AppendInputRows : Insert(data)
    \/ \E data \in AppendInputRows : InsertSource(data)
    \/ AppendBegin
    \/ AppendRow
    \/ \E id \in 1..MaxRows : RemoveElement(id)
    \/ StartCleaner
    \/ CleanExpiredScan
    \/ CleanExpiredRemove

SpecAppend == Init /\ [][NextAppend]_vars

(***************************************************************************)
(* Persistence (persistence.go): the gob snapshot is the                   *)
(* persistentDataFrame built from the store's fields; strings, float64,    *)
(* bool, uuid and UTC time values decode to equal values.                  *)
(***************************************************************************)
persistentDataFrame(st) ==
    [Version |-> st.Version, Data |-> st.Data, Keys |-> st.Keys,
     Strings |-> st.Strings, Numerics |-> st.Numerics, Booleans |-> st.Booleans,
     Times |-> st.Times, ExpireAt |-> st.ExpireAt, TTL |-> st.TTL]

\* LoadFromFile without the comparison of pdf.Version with d.Version.
LoadRefusedNoGate(st, file) == file.format # "gob"

\* LoadFromFile returns early, the store untouched, when the file does not
\* decode as gob or the version gate refuses it.
LoadRefused(st, file) ==
    file.format # "gob" \/ file.content[1].Version > st.Version

\* LoadFromFile without d.TTL = pdf.TTL.
LoadStoreKeepTTL(st, pdf) ==
         [Data |-> pdf.Data, Keys |-> pdf.Keys, Strings |-> pdf.Strings,
          Numerics |-> pdf.Numerics, Booleans |-> pdf.Booleans, Times |-> pdf.Times,
          ExpireAt |-> pdf.ExpireAt, TTL |-> st.TTL, Version |-> st.Version]

LoadStore(st, pdf) ==
         [Data |-> pdf.Data, Keys |-> pdf.Keys, Strings |-> pdf.Strings,
          Numerics |-> pdf.Numerics, Booleans |-> pdf.Booleans, Times |-> pdf.Times,
          ExpireAt |-> pdf.ExpireAt, TTL |-> pdf.TTL, Version |-> st.Version]

\* The cleaner after a load that returned early: the stop signal was taken
\* by a cleaner waiting in select and no new cleaner was started.
CleanerAfter(refused) == IF refused /\ cleaner = "select" THEN "off" ELSE cleaner

\* d.SaveToFile(filename)
SaveToFile ==
    /\ snap' = [format |-> "gob", content |-> <<persistentDataFrame(d)>>, acc |-> acc]
    /\ UNCHANGED <<scanNow, ap, found, ex, lk, rx, stop, d, df, res, now, nextId, cleaner, toRemove, app, acc, last>>

\* d.LoadFromFile(filename); os.Open fails when the file does not exist.
LoadFromFile ==
    /\ snap.format # "none"
    /\ d' = IF LoadRefused(d, snap) THEN d ELSE LoadStore(d, snap.content[1])
    /\ acc' = IF LoadRefused(d, snap) THEN acc ELSE snap.acc
    /\ cleaner' = CleanerAfter(LoadRefused(d, snap))
    /\ last' = [op |-> "LoadFromFile", id |-> 0, conflicts |-> {},
                err |-> LoadRefused(d, snap)]
    /\ UNCHANGED <<scanNow, ap, found, ex, lk, rx, stop, df, res, snap, now, nextId, toRemove, app>>

(***************************************************************************)
(* JSON export and import (persistence_json.go).  Row ids and expiry       *)
(* instants are written as text and parsed back.                           *)
(***************************************************************************)
\* uuid.Parse: the ids whose canonical text is s.
ParseUUID(s) ==
    LET ids == {id \in 1..MaxRows : UUIDString(id) = s}
    IN [ok |-> ids # {}, id |-> IF ids # {} THEN CHOOSE id \in ids : TRUE ELSE 0]

\* Time.Format(time.RFC3339Nano) and time.Parse(time.RFC3339Nano, s).
FormatRFC3339(t) == "T" \o ToString(t)

ParseRFC3339(s) ==
    LET ts == {t \in 0..(MaxTime + InitTTL) : FormatRFC3339(t) = s}
    IN [ok |-> ts # {}, t |-> IF ts # {} THEN CHOOSE t \in ts : TRUE ELSE 0]

\* Duration.String() and time.ParseDuration.
DurationString(ttl) == ToString(ttl) \o "s"

ParseDuration(s) ==
    LET ds == {n \in 0..InitTTL : DurationString(n) = s}
    IN [ok |-> ds # {}, ttl |-> IF ds # {} THEN CHOOSE n \in ds : TRUE ELSE 0]

\* rowData of ExportToJSON: string, float64 and bool values are written as they are.
ExportRow(row) ==
    LET fields == SetToSeq(DOMAIN row)
    IN [i \in 1..Len(fields) |->
           KV(fields[i],
              CASE row[fields[i]].t = String -> GoString(row[fields[i]].s)
                [] row[fields[i]].t = Numeric -> GoFloat64(row[fields[i]].n)
                [] row[fields[i]].t = Boolean -> GoBool(row[fields[i]].b))]

jsonDataFrame(st) ==
    [Version |-> st.Version,
     Data |-> [s \in {UUIDString(id) : id \in DOMAIN st.Data} |->
                  ExportRow(st.Data[CHOOSE id \in DOMAIN st.Data : UUIDString(id) = s])],
     Keys |-> st.Keys,
     ExpireAt |-> [s \in {UUIDString(id) : id \in DOMAIN st.ExpireAt} |->
                      FormatRFC3339(st.ExpireAt[CHOOSE id \in DOMAIN st.ExpireAt :
                                                    UUIDString(id) = s])],
     TTL |-> DurationString(st.TTL)]

\* convertedData[key] for one entry of rowData.
ConvertValue(keys, key, value) ==
    IF /\ key \in DOMAIN keys
       /\ keys[key] = Time
       /\ value.kind = "string"
       /\ ParseRFC3339(value.s).ok
    THEN GoTime(ParseRFC3339(value.s).t)
    ELSE value

ConvertRow(keys, rowData) ==
    [j \in 1..Len(rowData) |->
        KV(rowData[j].k, ConvertValue(keys, rowData[j].k, rowData[j].v))]

\* The loop over jdf.Data: ok is FALSE when uuid.Parse failed and import returned.
RECURSIVE importRows(_, _, _, _)
importRows(st, jdf, idStrs, i) ==
    IF i > Len(idStrs) THEN [st |-> st, ok |-> TRUE]
    ELSE IF ~ParseUUID(idStrs[i]).ok THEN [st |-> st, ok |-> FALSE]
    ELSE LET id == ParseUUID(idStrs[i]).id
             c == index([st |-> st, row |-> EmptyMap],
                        ConvertRow(st.Keys, jdf.Data[idStrs[i]]), "", id)
         IN importRows([c.st EXCEPT !.Data = MapPut(c.st.Data, id, c.row)],
                       jdf, idStrs, i + 1)

\* The loop over jdf.ExpireAt: entries that do not parse are skipped.
importExpireAt(jdf) ==
    LET good == {s \in DOMAIN jdf.ExpireAt :
                    ParseUUID(s).ok /\ ParseRFC3339(jdf.ExpireAt[s]).ok}
    IN [id \in {ParseUUID(s).id : s \in good} |->
           ParseRFC3339(jdf.ExpireAt[CHOOSE s \in good : ParseUUID(s).id = id]).t]

\* ImportFromJSON returns early, the store untouched, when the file does not
\* decode as JSON, the version gate refuses it or its TTL does not parse.
ImportRefused(st, file) ==
    \/ file.format # "json"
    \/ file.content[1].Version > st.Version
    \/ ~ParseDuration(file.content[1].TTL).ok

\* The error ImportFromJSON returns: an early return, or a row id that
\* uuid.Parse refuses.
ImportError(st, file) ==
    \/ ImportRefused(st, file)
    \/ ~importRows([NewStore(0) EXCEPT !.Keys = file.content[1].Keys], file.content[1],
                   SetToSeq(DOMAIN file.content[1].Data), 1).ok

\* The store ImportFromJSON leaves when range visits jdf.Data in the order
\* idStrs: a row id that does not parse returns before ExpireAt is filled.
ImportStoreIn(st, jdf, idStrs) ==
         LET cleared == [NewStore(ParseDuration(jdf.TTL).ttl) EXCEPT
                            !.Version = st.Version, !.Keys = jdf.Keys]
             r == importRows(cleared, jdf, idStrs, 1)
         IN IF r.ok THEN [r.st EXCEPT !.ExpireAt = importExpireAt(jdf)] ELSE r.st

ImportStore(st, jdf) == ImportStoreIn(st, jdf, SetToSeq(DOMAIN jdf.Data))

\* d.ExportToJSON(filename)
ExportToJSON ==
    /\ snap' = [format |-> "json", content |-> <<jsonDataFrame(d)>>, acc |-> EmptyMap]
    /\ UNCHANGED <<scanNow, ap, found, ex, lk, rx, stop, d, df, res, now, nextId, cleaner, toRemove, app, acc, last>>

\* d.ImportFromJSON(filename); os.Open fails when the file does not exist.
ImportFromJSON ==
    /\ snap.format # "none"
    /\ \E idStrs \in Orders(DOMAIN snap.content[1].Data) :
          d' = IF ImportRefused(d, snap) THEN d
               ELSE ImportStoreIn(d, snap.content[1], idStrs)
    /\ acc' = IF ImportRefused(d, snap) THEN acc
              ELSE [id \in DOMAIN d'.Data |->
                       AcceptedLeaves(d', ConvertRow(snap.content[1].Keys,
                                                     snap.content[1].Data[UUIDString(id)]), id)]
    /\ cleaner' = CleanerAfter(ImportRefused(d, snap))
    /\ last' = [op |-> "ImportFromJSON", id |-> 0, conflicts |-> {},
                err |-> ImportError(d, snap)]
    /\ UNCHANGED <<scanNow, ap, found, ex, lk, rx, stop, df, res, snap, now, nextId, toRemove, app>>

PersistInputRows ==
    { <<KV("s", GoString("x"))>>,
      <<KV("t", GoTime(1)), KV("n", GoInt(1))>> }

PersistQueries ==
    { Query(Equals, "s", ArgString("x")), Query(Major, "n", ArgFloat64(0)) }

\* Rows of Text and Number fields, which both snapshot formats hold in full.
SnapshotInputRows ==
    { <<KV("s", GoString("x"))>>,
      <<KV("n", GoInt(1))>> }

NextPersist ==
    \/ FilterIdle /\ Tick
    \/ FilterIdle /\ \E data \in SnapshotInputRows : Insert(data)
    \/ FilterIdle /\ \E data \in SnapshotInputRows \cup {<<>>} : InsertWithError(data)
    \/ FilterIdle /\ InsertSource(<<KV("s", GoString("y"))>>)
    \/ FilterIdle /\ AppendBegin
    \/ FilterIdle /\ AppendRow
    \/ FilterIdle /\ \E id \in 1..MaxRows : RemoveElement(id)
    \/ FilterIdle /\ StartCleaner
    \/ FilterIdle /\ CleanExpiredScan
    \/ FilterIdle /\ CleanExpiredRemove
    \/ FilterIdle /\ SaveToFile
    \/ FilterIdle /\ LoadFromFile
    \/ FilterIdle /\ ExportToJSON
    \/ FilterIdle /\ ImportFromJSON
    \/ FilterIdle /\ \E q \in PersistQueries : Filter(q)
    \/ Discard

SpecPersist == Init /\ [][NextPersist]_vars

(***************************************************************************)
(* StopCleaner (dataframe.go): d.stopCleaner is the unbuffered channel     *)
(* Init made, so the send blocks until a cleaner takes it in its select.   *)
(* stop is the position of the caller: "idle" outside the call, "sending"  *)
(* while blocked in d.stopCleaner <- true.                                 *)
(***************************************************************************)
StopCleaner ==
    /\ stop = "idle"
    /\ stop' = "sending"
    /\ UNCHANGED <<scanNow, ap, found, ex, lk, rx, d, df, res, snap, now, nextId, cleaner, toRemove, app, acc, last>>

\* The cleaner receives the signal and goes on with its loop.
CleanExpiredStopIgnored ==
    /\ cleaner = "select"
    /\ stop = "sending"
    /\ stop' = "idle"
    /\ last' = [op |-> "StopCleaner", id |-> 0, conflicts |-> {}, err |-> FALSE]
    /\ UNCHANGED <<scanNow, ap, found, ex, lk, rx, d, df, res, snap, now, nextId, cleaner, toRemove, app, acc>>

\* CleanExpired, case <-d.stopCleaner: return.  The send completes and
\* StopCleaner returns.
CleanExpiredStop ==
    /\ cleaner = "select"
    /\ stop = "sending"
    /\ cleaner' = "off"
    /\ stop' = "idle"
    /\ last' = [op |-> "StopCleaner", id |-> 0, conflicts |-> {}, err |-> FALSE]
    /\ UNCHANGED <<scanNow, ap, found, ex, lk, rx, d, df, res, snap, now, nextId, toRemove, app, acc>>

NextStop ==
    \/ Tick
    \/ \E data \in PersistInputRows : Insert(data)
    \/ StartCleaner
    \/ CleanExpiredScan
    \/ CleanExpiredRemove
    \/ StopCleaner
    \/ CleanExpiredStop

SpecStop == Init /\ [][NextStop]_vars

\* The cleaner goroutine is scheduled: it takes a pending stop signal or a
\* tick whenever it waits in select, and finishes its removal loop.
FairStop ==
    /\ Init
    /\ [][NextStop]_vars
    /\ WF_vars(CleanExpiredScan)
    /\ WF_vars(CleanExpiredRemove)
    /\ SF_vars(CleanExpiredStop)

(***************************************************************************)
(* ExportToJSON and ImportFromJSON with Insert and RemoveElement.          *)
(***************************************************************************)
JSONInputRows ==
    { <<KV("name", GoString("x"))>>,
      <<KV("created", GoTime(1)), KV("name", GoString("y"))>>,
      <<KV("nested", GoMap(<<KV("city", GoString("x"))>>))>> }

NextJSON ==
    \/ Tick
    \/ \E data \in JSONInputRows : Insert(data)
    \/ \E id \in 1..MaxRows : RemoveElement(id)
    \/ ExportToJSON
    \/ ImportFromJSON

SpecJSON == Init /\ [][NextJSON]_vars

(***************************************************************************)
(* The version gate.  Version is an exported field: a caller that writes   *)
(* snapshots of another format version assigns it before saving.           *)
(***************************************************************************)
MaxVersion == 2

\* d.Version = v
SetVersion(v) ==
    /\ v # d.Version
    /\ d' = [d EXCEPT !.Version = v]
    /\ UNCHANGED <<scanNow, ap, found, ex, lk, rx, df, res, snap, now, nextId, cleaner, toRemove, app, acc, last, stop>>

NextVersion ==
    \/ \E data \in PersistInputRows : Insert(data)
    \/ \E id \in 1..MaxRows : RemoveElement(id)
    \/ \E v \in 0..MaxVersion : SetVersion(v)
    \/ SaveToFile
    \/ LoadFromFile
    \/ ExportToJSON
    \/ ImportFromJSON

SpecVersion == Init /\ [][NextVersion]_vars

(***************************************************************************)
(* Filter with a pattern key, over rows with one or two fields the pattern *)
(* selects.                                                                *)
(***************************************************************************)
PatternInputRows ==
    { <<KV("fa", GoString("x"))>>,
      <<KV("fa", GoString("x")), KV("fb", GoString("x"))>>,
      <<KV("fa", GoString("y")), KV("fn", GoInt(1))>>,
      <<KV("g", GoString("x"))>> }

PatternQueries ==
    { Query(Equals, "^f", ArgString("x")), Query(NotEquals, "^f", ArgString("x")),
      Query(Equals, "^fa", ArgString("y")), Query(Equals, "^f", ArgFloat64(1)),
      Query(Equals, "(f", ArgString("x")), Query(Equals, "[f", ArgString("x")) }

NextPattern ==
    \/ FilterIdle /\ \E data \in PatternInputRows : Insert(data)
    \/ FilterIdle /\ \E id \in 1..MaxRows : RemoveElement(id)
    \/ FilterIdle /\ \E q \in PatternQueries : Filter(q)
    \/ Discard

SpecPattern == Init /\ [][NextPattern]_vars

(***************************************************************************)
(* Filter with Between and NotBetween, over rows with a Number field, a    *)
(* Time field or both, and range ends given in either order.               *)
(***************************************************************************)
RangeInputRows ==
    { <<KV("n", GoInt(1))>>, <<KV("n", GoFloat64(2))>>,
      <<KV("t", GoTime(1))>>, <<KV("t", GoTime(2))>>,
      <<KV("n", GoInt(2)), KV("t", GoTime(1))>> }

RangeEnds == 0..(MaxTime + 1)

RangeArg(keyType, a, b) ==
    IF keyType = Numeric THEN ArgFloat64s(<<a, b>>) ELSE ArgTimes(<<a, b>>)

RangeQueries ==
    { Query(operator, "n", RangeArg(Numeric, a, b)) :
        <<operator, a, b>> \in {Between, NotBetween} \X RangeEnds \X RangeEnds }
    \cup
    { Query(operator, "t", RangeArg(Time, a, b)) :
        <<operator, a, b>> \in {Between, NotBetween} \X RangeEnds \X RangeEnds }

NextRange ==
    \/ FilterIdle /\ \E data \in RangeInputRows : Insert(data)
    \/ FilterIdle /\ \E id \in 1..MaxRows : RemoveElement(id)
    \/ FilterIdle /\ \E q \in RangeQueries : Filter(q)
    \/ Discard

SpecRange == Init /\ [][NextRange]_vars

(***************************************************************************)
(* Chained filters: the caller filters the store a Filter returned.  The   *)
(* rows of a result are numbered in the order they were inserted, so       *)
(* hits[i] is the source row of result row i.                              *)
(***************************************************************************)
ChainInputRows ==
    { <<KV("s", GoString("x")), KV("t", GoTime(1))>>,
      <<KV("s", GoString("x")), KV("n", GoInt(1)), KV("b", GoBool(TRUE))>>,
      <<KV("t", GoTime(2)), KV("n", GoInt(1))>> }

ChainQueries ==
    { Query(Equals, "s", ArgString("x")), Query(Equals, "n", ArgFloat64(1)),
      Query(Equals, "b", ArgBool(TRUE)), Query(Between, "t", ArgTimes(<<1, 2>>)),
      Query(NotBetween, "t", ArgTimes(<<1, 1>>)) }

\* res = res.Filter(q.operator, q.key, q.value, options)
FilterAgain(q) ==
    /\ res.q # NoQuery
    /\ \E order \in Orders(FilterKeys(res.store, q.key)) :
          LET hits == FilterHitsIn(res.store, q.operator, order, q.value, q.insensitive)
          IN res' = [store |-> InsertHits(NewStore(res.store.TTL), res.store, hits, 1, now),
                     q |-> q,
                     hits |-> [j \in 1..Len(hits) |-> res.hits[hits[j]]]]
    /\ UNCHANGED <<scanNow, ap, found, ex, lk, rx, stop, d, df, snap, now, nextId, cleaner, toRemove, app, acc, last>>

NextChain ==
    \/ FilterIdle /\ Tick
    \/ FilterIdle /\ \E data \in ChainInputRows : Insert(data)
    \/ FilterIdle /\ \E id \in 1..MaxRows : RemoveElement(id)
    \/ FilterIdle /\ \E q \in ChainQueries : Filter(q)
    \/ \E q \in ChainQueries : FilterAgain(q)
    \/ Discard

SpecChain == Init /\ [][NextChain]_vars

(***************************************************************************)
(* Filter with a literal key and queries the store cannot answer: a field  *)
(* that is not committed, an operator without a case under the committed   *)
(* type, a value that fails the type assertion of the case.                *)
(***************************************************************************)
DegradedInputRows ==
    { <<KV("s", GoString("x")), KV("n", GoInt(1))>>,
      <<KV("b", GoBool(FALSE)), KV("t", GoTime(1))>>,
      <<KV("b", GoBool(TRUE)), KV("n", GoInt(0))>> }

DegradedQueries ==
    { Query(Equals, "z", ArgString("x")), Query(Equals, "n", ArgFloat64(1)),
      Query(Equals, "s", ArgString("x")), Query(Equals, "b", ArgBool(FALSE)),
      Query(Between, "t", ArgTimes(<<1, 2>>)), Query(Between, "n", ArgFloat64s(<<0, 1>>)),
      Query(Major, "s", ArgString("a")), Query(Between, "s", ArgStrings(<<"a", "z">>)),
      Query(Equals, "t", ArgTimes(<<1, 1>>)), Query(RegExp, "n", ArgString("1")),
      Query(Major, "b", ArgBool(FALSE)), Query(Contains, "b", ArgString("x")),
      Query(Equals, "n", ArgString("1")), Query(Major, "n", ArgBool(FALSE)),
      Query(MinorEquals, "n", ArgFloat64s(<<1>>)), Query(InList, "n", ArgFloat64(1)),
      Query(Between, "n", ArgFloat64s(<<1>>)), Query(NotBetween, "n", ArgFloat64s(<<0, 1, 2>>)),
      Query(Between, "n", ArgFloat64s(<<>>)), Query(NotBetween, "n", ArgFloat64(2)),
      Query(Between, "t", ArgTimes(<<1>>)), Query(NotBetween, "t", ArgTimes(<<0, 1, 2>>)),
      Query(Between, "t", ArgFloat64s(<<1, 2>>)),
      Query(Equals, "s", ArgFloat64(1)), Query(InList, "s", ArgString("x")),
      Query(Equals, "b", ArgString("x")), Query(NotEquals, "b", ArgFloat64(1)) }

NextDegraded ==
    \/ FilterIdle /\ \E data \in DegradedInputRows : Insert(data)
    \/ FilterIdle /\ \E id \in 1..MaxRows : RemoveElement(id)
    \/ FilterIdle /\ \E q \in DegradedQueries : Filter(q)
    \/ Discard

SpecDegraded == Init /\ [][NextDegraded]_vars

(***************************************************************************)
(* Filter with patterns and network literals, well formed and malformed,   *)
(* over text fields that hold an IP literal or another text.               *)
(***************************************************************************)
MalformedInputRows ==
    { <<KV("s", GoString("10.1.1.1"))>>,
      <<KV("s", GoString("x"))>>,
      <<KV("s", GoString("10.2.0.1")), KV("sb", GoBool(TRUE))>>,
      <<KV("s", GoString("x")), KV("sa", GoString("192.168.1.1"))>> }

MalformedQueries ==
    { Query(operator, key, ArgString(p)) :
        <<operator, key, p>> \in {RegExp, NotRegExp} \X {"s", "^s"} \X {"(x", "[x", "^1", "x"} }
    \cup
    { Query(operator, key, ArgString(c)) :
        <<operator, key, c>> \in {InCIDR, NotInCIDR} \X {"s", "^s"}
                                   \X {"10.0.0.0", "x/8", "10.0.0.0/8", "10.1.0.0/16"} }

NextMalformed ==
    \/ FilterIdle /\ \E data \in MalformedInputRows : Insert(data)
    \/ FilterIdle /\ \E id \in 1..MaxRows : RemoveElement(id)
    \/ FilterIdle /\ \E q \in MalformedQueries : Filter(q)
    \/ Discard

SpecMalformed == Init /\ [][NextMalformed]_vars

(***************************************************************************)
(* SaveToFile and LoadFromFile alone, over rows that carry a Time field,   *)
(* with removals and the cleaner.                                          *)
(***************************************************************************)
NextGob ==
    \/ Tick
    \/ \E data \in PersistInputRows : Insert(data)
    \/ \E id \in 1..MaxRows : RemoveElement(id)
    \/ StartCleaner
    \/ CleanExpiredScan
    \/ CleanExpiredRemove
    \/ SaveToFile
    \/ LoadFromFile

SpecGob == Init /\ [][NextGob]_vars

(***************************************************************************)
(* Insert of a numeric value of each Go width.  kind is what               *)
(* reflect.TypeOf(v).String() returns for it.                              *)
(***************************************************************************)
GoNumber(kind, n) == [kind |-> kind, s |-> "", n |-> n, b |-> FALSE, m |-> <<>>]

NumericKinds ==
    {"int", "int8", "int16", "int32", "int64",
     "uint", "uint8", "uint16", "uint32", "uint64", "float32", "float64"}

NumericInputRows == { <<KV("f", GoNumber(kind, 1))>> : kind \in NumericKinds }

NumericQueries == { Query(Equals, "f", ArgFloat64(1)), Query(Equals, "f", ArgFloat64(0)) }

NextNumeric ==
    \/ FilterIdle /\ Tick
    \/ FilterIdle /\ \E data \in NumericInputRows : Insert(data)
    \/ FilterIdle /\ \E id \in 1..MaxRows : RemoveElement(id)
    \/ FilterIdle /\ \E q \in NumericQueries : Filter(q)
    \/ Discard

SpecNumeric == Init /\ [][NextNumeric]_vars

(***************************************************************************)
(* The regex cache.  Filter, FindFirstByKey and Explain reach it only      *)
(* through getCompiledRegex, while they hold d.Locker for reading; what    *)
(* they return does not depend on its content.  getCompiledRegex looks the *)
(* pattern up under regexMutex.RLock, compiles it unlocked, and stores it  *)
(* under regexMutex.Lock.  Load holds d.Locker for writing and rebuilds    *)
(* the cache without regexMutex; ClearRegexCache holds regexMutex only.    *)
(***************************************************************************)
CachePatterns == {"^a", "^b", "^c", "(x"}

\* d.InitWithOptions(ttl, maxRegexCache) on a store not used yet.
InitWithOptions(maxRegexCache) ==
    /\ rx = NoRegexCache
    /\ rx' = [rx EXCEPT !.max = IF maxRegexCache > 0 THEN maxRegexCache ELSE DefaultRegexCache,
                        !.fresh = FALSE]
    /\ UNCHANGED <<scanNow, ap, found, ex, lk, d, df, res, snap, now, nextId, cleaner, toRemove, app, acc, last, stop>>

\* getCompiledRegex up to regexp.Compile: the pattern is not cached and compiles.
getCompiledRegexMiss(c, pattern) ==
    /\ rx.getters[c] = ""
    /\ rx.load.phase = "idle"
    /\ ~rx.clearing
    /\ pattern \notin rx.cache
    /\ RegexpCompiles(pattern)
    /\ rx' = [rx EXCEPT !.getters[c] = pattern]
    /\ UNCHANGED <<scanNow, ap, found, ex, lk, d, df, res, snap, now, nextId, cleaner, toRemove, app, acc, last, stop>>

\* The cache after the eviction of one entry, any of them, when the size has
\* reached the maximum.
Evicted(r) ==
    IF r.size >= r.max /\ r.cache # {}
    THEN {[r EXCEPT !.cache = r.cache \ {k}, !.size = r.size - 1] : k \in r.cache}
    ELSE {r}

\* getCompiledRegex from regexMutex.Lock to the return.
getCompiledRegexStore(c) ==
    /\ rx.getters[c] # ""
    /\ ~rx.clearing
    /\ \E r \in Evicted(rx) :
          rx' = [r EXCEPT !.cache = r.cache \cup {rx.getters[c]},
                         !.size = r.size + 1,
                         !.getters[c] = ""]
    /\ UNCHANGED <<scanNow, ap, found, ex, lk, d, df, res, snap, now, nextId, cleaner, toRemove, app, acc, last, stop>>

\* ClearRegexCache: d.regexCache = make(...)
ClearRegexCacheMap ==
    /\ ~rx.clearing
    /\ rx' = [rx EXCEPT !.cache = {}, !.clearing = TRUE]
    /\ UNCHANGED <<scanNow, ap, found, ex, lk, d, df, res, snap, now, nextId, cleaner, toRemove, app, acc, last, stop>>

\* ClearRegexCache: d.regexCacheSize = 0; Unlock.
ClearRegexCacheSize ==
    /\ rx.clearing
    /\ rx' = [rx EXCEPT !.size = 0, !.clearing = FALSE]
    /\ UNCHANGED <<scanNow, ap, found, ex, lk, d, df, res, snap, now, nextId, cleaner, toRemove, app, acc, last, stop>>

\* SaveToFile: MaxRegexCache and RegexPatterns of the snapshot.
SaveRegexPatterns ==
    /\ rx.load.phase = "idle"
    /\ ~rx.clearing
    /\ rx' = [rx EXCEPT !.file = [saved |-> TRUE, max |-> rx.max, patterns |-> rx.cache]]
    /\ UNCHANGED <<scanNow, ap, found, ex, lk, d, df, res, snap, now, nextId, cleaner, toRemove, app, acc, last, stop>>

\* LoadFromFile: d.maxRegexCache = pdf.MaxRegexCache; d.regexCache = make(...)
LoadRegexCacheMap ==
    /\ rx.file.saved
    /\ rx.load.phase = "idle"
    /\ \A c \in 1..MaxCallers : rx.getters[c] = ""
    /\ rx' = [rx EXCEPT !.max = rx.file.max, !.cache = {},
                        !.load = [phase |-> "size", todo |-> rx.file.patterns]]
    /\ UNCHANGED <<scanNow, ap, found, ex, lk, d, df, res, snap, now, nextId, cleaner, toRemove, app, acc, last, stop>>

\* LoadFromFile: d.regexCacheSize = 0
LoadRegexCacheSize ==
    /\ rx.load.phase = "size"
    /\ rx' = [rx EXCEPT !.size = 0,
                        !.load = IF rx.load.todo = {} THEN NoLoad
                                 ELSE [phase |-> "loop", todo |-> rx.load.todo]]
    /\ UNCHANGED <<scanNow, ap, found, ex, lk, d, df, res, snap, now, nextId, cleaner, toRemove, app, acc, last, stop>>

\* LoadFromFile: one iteration of the loop over pdf.RegexPatterns.
LoadRegexPattern ==
    /\ rx.load.phase = "loop"
    /\ \E pattern \in rx.load.todo :
          rx' = [rx EXCEPT !.cache = rx.cache \cup {pattern},
                          !.size = rx.size + 1,
                          !.load = IF rx.size + 1 >= rx.max \/ rx.load.todo = {pattern}
                                   THEN NoLoad
                                   ELSE [phase |-> "loop", todo |-> rx.load.todo \ {pattern}]]
    /\ UNCHANGED <<scanNow, ap, found, ex, lk, d, df, res, snap, now, nextId, cleaner, toRemove, app, acc, last, stop>>

NextCache ==
    \/ \E maxRegexCache \in {0, 1} : InitWithOptions(maxRegexCache)
    \/ \E c \in 1..MaxCallers, pattern \in CachePatterns : getCompiledRegexMiss(c, pattern)
    \/ \E c \in 1..MaxCallers : getCompiledRegexStore(c)
    \/ ClearRegexCacheMap
    \/ ClearRegexCacheSize
    \/ SaveRegexPatterns
    \/ LoadRegexCacheMap
    \/ LoadRegexCacheSize
    \/ LoadRegexPattern

SpecCache == Init /\ [][NextCache]_vars

(***************************************************************************)
(* Concurrent callers of Insert and Filter on d while the reaper runs and  *)
(* no row expires.  Insert runs statement by statement between Lock and    *)
(* Unlock; Filter and the scan of the reaper hold the lock for reading     *)
(* from their first to their last read, so each of them is one step that   *)
(* waits for the writer.                                                   *)
(***************************************************************************)
\* Nobody holds d.Locker for writing.
LockIgnored == TRUE

LockFree == lk.writer = NoWriter

\* Insert: d.Locker.Lock(); id := uuid.New()
InsertLock(data) ==
    /\ LockFree
    /\ nextId <= MaxRows
    /\ lk' = [lk EXCEPT !.writer = [phase |-> "index", data |-> data, id |-> nextId]]
    /\ nextId' = nextId + 1
    /\ UNCHANGED <<scanNow, ap, found, ex, rx, d, df, res, snap, now, cleaner, toRemove, app, acc, last, stop>>

\* Insert: d.index(data, "", id, &row)
InsertIndex ==
    /\ lk.writer.phase = "index"
    /\ d' = [InsertRow(d, lk.writer.data, lk.writer.id, now) EXCEPT
                !.Data = d.Data, !.ExpireAt = d.ExpireAt]
    /\ lk' = [lk EXCEPT !.writer.phase = "data"]
    /\ UNCHANGED <<scanNow, ap, found, ex, rx, df, res, snap, now, nextId, cleaner, toRemove, app, acc, last, stop>>

\* Insert: d.Data[id] = row
InsertData ==
    /\ lk.writer.phase = "data"
    /\ d' = [d EXCEPT !.Data = InsertRow(d, lk.writer.data, lk.writer.id, now).Data]
    /\ lk' = [lk EXCEPT !.writer.phase = "expire"]
    /\ UNCHANGED <<scanNow, ap, found, ex, rx, df, res, snap, now, nextId, cleaner, toRemove, app, acc, last, stop>>

\* Insert: d.ExpireAt[id] = time.Now().UTC().Add(d.TTL); Unlock.
InsertUnlock ==
    /\ lk.writer.phase = "expire"
    /\ d' = [d EXCEPT !.ExpireAt = MapPut(d.ExpireAt, lk.writer.id, now + d.TTL)]
    /\ acc' = MapPut(acc, lk.writer.id, AcceptedLeaves(d', lk.writer.data, lk.writer.id))
    /\ last' = [op |-> "Insert", id |-> lk.writer.id, conflicts |-> {}, err |-> FALSE]
    /\ lk' = [writer |-> NoWriter, calls |-> lk.calls + 1]
    /\ UNCHANGED <<scanNow, ap, found, ex, rx, df, res, snap, now, nextId, cleaner, toRemove, app, stop>>

\* Filter between RLock and RUnlock.
FilterRLocked(q) == LockFree /\ Filter(q)

\* CleanExpired: the scan between RLock and RUnlock.
CleanExpiredScanRLocked == LockFree /\ CleanExpiredScan

ConcurrentInputRows ==
    { <<KV("worker", GoInt(1)), KV("count", GoInt(1))>>,
      <<KV("worker", GoInt(2)), KV("count", GoInt(1))>> }

ConcurrentQueries ==
    { Query(Equals, "worker", ArgFloat64(1)), Query(Equals, "worker", ArgFloat64(2)) }

NextConcurrent ==
    \/ \E data \in ConcurrentInputRows : InsertLock(data)
    \/ InsertIndex
    \/ InsertData
    \/ InsertUnlock
    \/ \E q \in ConcurrentQueries : FilterRLocked(q)
    \/ StartCleaner
    \/ CleanExpiredScanRLocked

SpecConcurrent == Init /\ [][NextConcurrent]_vars

(***************************************************************************)
(* InsertWithError with a nil or empty map and with rows of every kind.    *)
(***************************************************************************)
NextChecked ==
    \/ Tick
    \/ \E data \in InputRows \cup {<<>>} : InsertWithError(data)
    \/ \E id \in 1..MaxRows : RemoveElement(id)

SpecChecked == Init /\ [][NextChecked]_vars

(***************************************************************************)
(* Explain (explain.go).  It reads the store under RLock; a pattern key    *)
(* goes through getCompiledRegex, whose effect on the cache is the pair of *)
(* cache actions above.                                                    *)
(***************************************************************************)
keyTypeToString(kt) ==
    CASE kt = String -> "String"
      [] kt = Numeric -> "Numeric"
      [] kt = Boolean -> "Boolean"
      [] kt = Time -> "Time"
      [] OTHER -> "Unknown"

\* The sum of len(ids) over the values of idx that satisfy keep.
RECURSIVE CountIds(_, _)
CountIds(idx, keys) ==
    IF keys = {} THEN 0
    ELSE LET k == CHOOSE x \in keys : TRUE
         IN Cardinality(idx[k]) + CountIds(idx, keys \ {k})

\* estimateNumericRows with the default case for every operator.
estimateNumericRowsDefault(op, value, idx) == CountIds(idx, DOMAIN idx)

estimateNumericRows(op, value, idx) ==
    CASE op = Equals ->
            IF value.kind = "float64" /\ value.n \in DOMAIN idx
            THEN Cardinality(idx[value.n]) ELSE 0
      [] op = NotEquals ->
            IF value.kind = "float64"
            THEN CountIds(idx, {key \in DOMAIN idx : key # value.n}) ELSE 0
      [] op \in {Major, Minor, MajorEquals, MinorEquals} ->
            IF value.kind = "float64"
            THEN CountIds(idx, {key \in DOMAIN idx :
                                     CASE op = Major -> key > value.n
                                       [] op = Minor -> key < value.n
                                       [] op = MajorEquals -> key >= value.n
                                       [] op = MinorEquals -> key <= value.n})
            ELSE 0
      [] op \in {Between, NotBetween} ->
            IF value.kind = "[]float64" /\ Len(value.l) = 2
            THEN LET min == IF value.l[1] > value.l[2] THEN value.l[2] ELSE value.l[1]
                     max == IF value.l[1] > value.l[2] THEN value.l[1] ELSE value.l[2]
                 IN CountIds(idx, {key \in DOMAIN idx :
                                        \/ op = Between /\ key >= min /\ key <= max
                                        \/ op = NotBetween /\ (key < min \/ key > max)})
            ELSE 0
      [] OTHER -> CountIds(idx, DOMAIN idx)

estimateStringRows(op, value, idx) ==
    CASE op = Equals ->
            IF value.kind = "string" /\ value.s \in DOMAIN idx
            THEN Cardinality(idx[value.s]) ELSE 0
      [] op = NotEquals ->
            IF value.kind = "string"
            THEN CountIds(idx, {key \in DOMAIN idx : key # value.s}) ELSE 0
      [] op \in {InList, NotInList} ->
            IF value.kind = "[]string"
            THEN CountIds(idx, {key \in DOMAIN idx :
                                     \/ op = InList /\ InListF(key, value.l)
                                     \/ op = NotInList /\ ~InListF(key, value.l)})
            ELSE 0
      [] OTHER -> CountIds(idx, DOMAIN idx)

estimateBooleanRows(op, value, idx) ==
    CASE op = Equals ->
            IF value.kind = "bool" /\ value.b \in DOMAIN idx
            THEN Cardinality(idx[value.b]) ELSE 0
      [] op = NotEquals ->
            IF value.kind = "bool" /\ (~value.b) \in DOMAIN idx
            THEN Cardinality(idx[~value.b]) ELSE 0
      [] OTHER -> CountIds(idx, DOMAIN idx)

estimateTimeRows(op, value, idx) ==
    CASE op \in {Between, NotBetween} ->
            IF value.kind = "[]time.Time" /\ Len(value.l) = 2
            THEN LET start == IF value.l[1] > value.l[2] THEN value.l[2] ELSE value.l[1]
                     end == IF value.l[1] > value.l[2] THEN value.l[1] ELSE value.l[2]
                 IN CountIds(idx, {key \in DOMAIN idx :
                                        \/ op = Between /\ ~(key < start) /\ ~(key > end)
                                        \/ op = NotBetween /\ (key < start \/ key > end)})
            ELSE 0
      [] OTHER -> CountIds(idx, DOMAIN idx)

\* TotalRows taken from the committed fields instead of the rows.
TotalRowsOfKeys(st) == Cardinality(DOMAIN st.Keys)

\* TotalRows: len(d.Data)
TotalRowsOf(st) == Cardinality(DOMAIN st.Data)

ExplainResult(st, q) ==
    LET matches == IF ~IsPattern(q.key) THEN -1
                   ELSE IF RegexpCompiles(q.key)
                        THEN Cardinality({k \in DOMAIN st.Keys : RegexpMatch(q.key, k)})
                        ELSE 0
        total == TotalRowsOf(st)
    IN IF q.key \notin DOMAIN st.Keys
       THEN [q |-> q, KeyType |-> "Unknown", IndexUsed |-> FALSE, EstimatedRows |-> 0,
             TotalRows |-> total, matches |-> matches]
       ELSE LET keyType == st.Keys[q.key]
                idx == IndexOf(st, keyType)
            IN [q |-> q, KeyType |-> keyTypeToString(keyType), IndexUsed |-> TRUE,
                EstimatedRows |->
                    IF q.key \notin DOMAIN idx THEN 0
                    ELSE CASE keyType = Numeric ->
                                estimateNumericRows(q.operator, q.value, idx[q.key])
                           [] keyType = String ->
                                estimateStringRows(q.operator, q.value, idx[q.key])
                           [] keyType = Boolean ->
                                estimateBooleanRows(q.operator, q.value, idx[q.key])
                           [] keyType = Time ->
                                estimateTimeRows(q.operator, q.value, idx[q.key]),
                TotalRows |-> total, matches |-> matches]

\* ex := d.Explain(q.operator, q.key, q.value)
Explain(q) ==
    /\ ex' = ExplainResult(d, q)
    /\ UNCHANGED <<scanNow, ap, found, d, df, res, snap, now, nextId, cleaner, toRemove, app, acc, last, stop, rx, lk>>

\* The caller drops the plan.
DiscardExplain ==
    /\ ex.q # NoQuery
    /\ ex' = NoExplain
    /\ UNCHANGED <<scanNow, ap, found, d, df, res, snap, now, nextId, cleaner, toRemove, app, acc, last, stop, rx, lk>>

ExplainIdle == res.q = NoQuery /\ ex.q = NoQuery

\* Queries on a pattern key, an uncommitted key, an ill-typed value and an
\* operator without a case of its own, besides those of Filter.
ExplainQueries ==
    Queries \cup
    { Query(Equals, "^s", ArgString("Xy")), Query(Equals, "(s", ArgString("Xy")),
      Query(Equals, "z", ArgString("Xy")), Query(Equals, "n", ArgString("Xy")),
      Query(Equals, "t", ArgTimes(<<1, 1>>)), Query(Equals, "s", ArgString("xy")) }

NextExplain ==
    \/ ExplainIdle /\ \E data \in FilterInputRows : Insert(data)
    \/ ExplainIdle /\ \E id \in 1..MaxRows : RemoveElement(id)
    \/ ExplainIdle /\ \E q \in ExplainQueries : Filter(q)
    \/ ExplainIdle /\ \E q \in ExplainQueries : Explain(q)
    \/ Discard
    \/ DiscardExplain

SpecExplain == Init /\ [][NextExplain]_vars

(***************************************************************************)
(* Files that did not come from this store.  Another program rewrites the  *)
(* exported file: its TTL is no duration, or one of its row ids is no      *)
(* uuid.                                                                   *)
(***************************************************************************)
BadTTL(jdf) == [jdf EXCEPT !.TTL = "soon"]

BadRowId(jdf, s) ==
    [jdf EXCEPT !.Data = [k \in (DOMAIN jdf.Data \ {s}) \cup {"no-uuid"} |->
                             IF k = "no-uuid" THEN jdf.Data[s] ELSE jdf.Data[k]]]

ForeignFile ==
    /\ snap.format = "json"
    /\ "no-uuid" \notin DOMAIN snap.content[1].Data
    /\ ParseDuration(snap.content[1].TTL).ok
    /\ \E jdf \in {BadTTL(snap.content[1])}
                  \cup {BadRowId(snap.content[1], s) : s \in DOMAIN snap.content[1].Data} :
          snap' = [snap EXCEPT !.content = <<jdf>>]
    /\ UNCHANGED <<scanNow, ap, found, d, df, res, now, nextId, cleaner, toRemove, app, acc, last, stop, rx, lk, ex>>

NextForeign ==
    \/ \E data \in SnapshotInputRows : Insert(data)
    \/ \E id \in 1..MaxRows : RemoveElement(id)
    \/ \E v \in 0..MaxVersion : SetVersion(v)
    \/ SaveToFile
    \/ LoadFromFile
    \/ ExportToJSON
    \/ ForeignFile
    \/ ImportFromJSON

SpecForeign == Init /\ [][NextForeign]_vars

(***************************************************************************)
(* FindFirstByKey (filter.go).  range visits the selected keys, the values *)
(* of a key and the ids of a value in any order, and the first id met is   *)
(* returned with d.Data[row][key], nil when the row has no such field.     *)
(***************************************************************************)
FindFirstKeys(st, key) ==
    IF IsPattern(key)
    THEN IF RegexpCompiles(key) THEN {k \in DOMAIN st.Keys : RegexpMatch(key, k)} ELSE {}
    ELSE {key}

\* The rows the switch on keyType can return for dataFrameKey.
FindFirstRows(st, dataFrameKey) ==
    IF KeyTypeOf(st, dataFrameKey) \in KeyTypes
    THEN IdsIn([k \in {dataFrameKey} \cap DOMAIN IndexOf(st, KeyTypeOf(st, dataFrameKey)) |->
                   IndexOf(st, KeyTypeOf(st, dataFrameKey))[k]])
    ELSE {}

\* d.Data[row][dataFrameKey]
FieldOf(st, row, dataFrameKey) ==
    IF row \in DOMAIN st.Data /\ dataFrameKey \in DOMAIN st.Data[row]
    THEN st.Data[row][dataFrameKey] ELSE NilVal

\* A key without rows is skipped, so the call returns a row of any selected
\* key that has one, and (uuid.Nil, "", nil) when none has.
FindFirstResults(st, key) ==
    LET hits == {[key |-> key, id |-> row, name |-> k, value |-> FieldOf(st, row, k)] :
                    <<k, row>> \in {kr \in FindFirstKeys(st, key) \X (1..MaxRows) :
                                        kr[2] \in FindFirstRows(st, kr[1])}}
    IN IF hits = {} THEN {[NotFound EXCEPT !.key = key]} ELSE hits

\* found := d.FindFirstByKey(key)
FindFirstByKey(key) ==
    /\ found' \in FindFirstResults(d, key)
    /\ UNCHANGED <<scanNow, ap, d, df, res, snap, now, nextId, cleaner, toRemove, app, acc, last, stop, rx, lk, ex>>

FindKeys == {"f", "g", "l.0", "z", "^f"}

NextFind ==
    \/ \E data \in InputRows : Insert(data)
    \/ \E id \in 1..MaxRows : RemoveElement(id)
    \/ \E key \in FindKeys : FindFirstByKey(key)

SpecFind == Init /\ [][NextFind]_vars

(***************************************************************************)
(* The caller mutates the store Filter returned: the result has its own    *)
(* maps and its own lock, its rows were built by results.Insert.           *)
(***************************************************************************)
\* res.RemoveElement(id)
ResultRemove(id) ==
    /\ res.q # NoQuery
    /\ id \in DOMAIN res.store.Data
    /\ res' = [res EXCEPT !.store = RemoveRow(res.store, id)]
    /\ UNCHANGED <<scanNow, ap, d, df, snap, now, nextId, cleaner, toRemove, app, acc, last, stop, rx, lk, ex, found>>

\* res.Insert(data), under the next id of the result.
ResultInsert(data) ==
    /\ res.q # NoQuery
    /\ Len(res.hits) < MaxRows
    /\ Cardinality(DOMAIN res.store.Data) = Len(res.hits)
    /\ res' = [res EXCEPT !.store = InsertRow(res.store, data, Len(res.hits) + 1, now),
                           !.hits = Append(res.hits, 0)]
    /\ UNCHANGED <<scanNow, ap, d, df, snap, now, nextId, cleaner, toRemove, app, acc, last, stop, rx, lk, ex, found>>

\* Queries of every field type, with and without options[CaseSensitive] =
\* false, on a literal and on a pattern key, well-typed and not.
ResultQueries ==
    { Query(MajorEquals, "n", ArgFloat64(1)), Query(NotBetween, "n", ArgFloat64s(<<2, 2>>)),
      Query(NotEquals, "s", ArgString("zz")),
      [Query(Equals, "s", ArgString("XY")) EXCEPT !.insensitive = TRUE],
      Query(NotEquals, "b", ArgBool(TRUE)), Query(Between, "t", ArgTimes(<<1, 2>>)),
      Query(Contains, "^s", ArgString("y")), Query(Equals, "n", ArgString("Xy")) }

ResultInputRows == { <<KV("s", GoString("new"))>> }

NextResult ==
    \/ FilterIdle /\ \E data \in FilterInputRows : Insert(data)
    \/ FilterIdle /\ \E id \in 1..MaxRows : RemoveElement(id)
    \/ FilterIdle /\ \E q \in ResultQueries : Filter(q)
    \/ \E id \in 1..MaxRows : ResultRemove(id)
    \/ \E data \in ResultInputRows : ResultInsert(data)
    \/ Discard

SpecResult == Init /\ [][NextResult]_vars

(***************************************************************************)
(* Append with its locks (append.go, insert.go).  The stores are named     *)
(* "d" and "df"; a caller may pass the same store as receiver and          *)
(* argument.  sync.RWMutex: RLock waits while a Lock is held or pending,   *)
(* Lock waits while any RLock is held, the caller's own included.          *)
(***************************************************************************)
StoreNames == {"d", "df"}

StoreOf(n) == IF n = "d" THEN d ELSE df

\* The callers that hold the read lock of store n.
Readers(n) == {p \in Procs : ap.pc[p] \in {"range", "lock"} /\ ap.src[p] = n}

\* The callers blocked in Lock of store n.
LockWaiters(n) == {p \in Procs : ap.pc[p] = "lock" /\ ap.recv[p] = n}

AppendsIdle == \A p \in Procs : ap.pc[p] = "idle"

\* recv.Append(src, key): df.Locker.RLock(); range df.Data starts.
AppendRLock(p, recv, src) ==
    /\ ap.pc[p] = "idle"
    /\ LockWaiters(src) = {}
    /\ ap' = [ap EXCEPT !.pc[p] = "range", !.recv[p] = recv, !.src[p] = src,
                        !.pending[p] = DOMAIN StoreOf(src).Data]
    /\ UNCHANGED <<scanNow, d, df, res, snap, now, nextId, cleaner, toRemove, app, acc, last, stop, rx, lk, ex, found>>

\* value["key"] = key; d.Insert(value) reaches d.Locker.Lock().
AppendMarkRow(p) ==
    /\ ap.pc[p] = "range"
    /\ \E r \in ap.pending[p] :
          /\ ap' = [ap EXCEPT !.pc[p] = "lock", !.row[p] = r]
          /\ d' = IF ap.src[p] = "d" THEN AppendMark(d, r, AppendKey) ELSE d
          /\ df' = IF ap.src[p] = "df" THEN AppendMark(df, r, AppendKey) ELSE df
    /\ UNCHANGED <<scanNow, res, snap, now, nextId, cleaner, toRemove, app, acc, last, stop, rx, lk, ex, found>>

\* The write lock of the receiver can be taken.
LockGranted(n) == Readers(n) = {}

\* d.Insert(value) from Lock to Unlock.
AppendInsert(p) ==
    /\ ap.pc[p] = "lock"
    /\ LockGranted(ap.recv[p])
    /\ nextId <= MaxRows
    /\ LET value == RowAsInput(StoreOf(ap.src[p]), ap.row[p])
       IN /\ d' = IF ap.recv[p] = "d" THEN InsertRow(d, value, nextId, now) ELSE d
          /\ df' = IF ap.recv[p] = "df" THEN InsertRow(df, value, nextId, now) ELSE df
          /\ acc' = IF ap.recv[p] = "d"
                    THEN MapPut(acc, nextId, AcceptedLeaves(d', value, nextId)) ELSE acc
    /\ nextId' = nextId + 1
    /\ ap' = [ap EXCEPT !.pc[p] = "range", !.pending[p] = ap.pending[p] \ {ap.row[p]},
                        !.row[p] = 0]
    /\ UNCHANGED <<scanNow, res, snap, now, cleaner, toRemove, app, last, stop, rx, lk, ex, found>>

\* The range is over: df.Locker.RUnlock() and Append returns.
AppendRUnlock(p) ==
    /\ ap.pc[p] = "range"
    /\ ap.pending[p] = {}
    /\ ap' = [ap EXCEPT !.pc[p] = "idle", !.recv[p] = "", !.src[p] = ""]
    /\ UNCHANGED <<scanNow, d, df, res, snap, now, nextId, cleaner, toRemove, app, acc, last, stop, rx, lk, ex, found>>

LockInputRows == { <<KV("s", GoString("x"))>> }

NextLocks ==
    \/ AppendsIdle /\ \E data \in LockInputRows : Insert(data)
    \/ AppendsIdle /\ \E data \in LockInputRows : InsertSource(data)
    \/ AppendsIdle /\ \E id \in 1..MaxRows : RemoveElement(id)
    \/ \E p \in Procs : \E recv, src \in StoreNames : AppendRLock(p, recv, src)
    \/ \E p \in Procs : AppendMarkRow(p)
    \/ \E p \in Procs : AppendInsert(p)
    \/ \E p \in Procs : AppendRUnlock(p)

SpecLocks == Init /\ [][NextLocks]_vars

(***************************************************************************)
(* Filter through the regex cache, one caller at a time.  A regexp is      *)
(* named by the pattern it was compiled from.  A hit returns the regexp    *)
(* stored under the pattern, a miss compiles the pattern and stores it,    *)
(* after the eviction of some entry when the cache is full.                *)
(***************************************************************************)
\* A hit that returns whichever entry range meets first.
CacheHitAny(r, pattern) == CHOOSE k \in r.cache : TRUE

\* re, exists := d.regexCache[pattern]: the entry was stored as
\* d.regexCache[pattern] = compiled, with compiled made from pattern.
CacheHit(r, pattern) == pattern

\* The regexp getCompiledRegex returns; the caller skips it when err.
getCompiledRegexRe(r, pattern) ==
    IF pattern \in r.cache THEN CacheHit(r, pattern) ELSE pattern

\* The caches getCompiledRegex can leave.
CacheAfter(r, pattern) ==
    IF pattern \in r.cache \/ ~RegexpCompiles(pattern) THEN {r}
    ELSE {[e EXCEPT !.cache = e.cache \cup {pattern}, !.size = e.size + 1] : e \in Evicted(r)}

\* What the cache did for the patterns of a call.
CacheDid(r, patterns) ==
    IF patterns = {} THEN "FilterPlain"
    ELSE IF patterns \subseteq r.cache THEN "FilterHit"
    ELSE IF r.size >= r.max /\ r.cache # {} THEN "FilterEvict"
    ELSE "FilterMiss"

\* res := d.Filter(q.operator, q.key, q.value, options), the patterns going
\* through getCompiledRegex: the key at filter.go:85, the value of RegExp
\* and NotRegExp at filter.go:319 and 339 for a Text key that has an index.
FilterCached(q) ==
    /\ ~rx.clearing /\ rx.load.phase = "idle"
    /\ \A c \in 1..MaxCallers : rx.getters[c] = ""
    /\ LET keyRe == IF IsPattern(q.key) THEN getCompiledRegexRe(rx, q.key) ELSE q.key
           keys == IF IsPattern(q.key) /\ ~RegexpCompiles(q.key) THEN {}
                   ELSE FilterKeys(d, keyRe)
           usesValue == /\ q.operator \in {RegExp, NotRegExp}
                        /\ q.value.kind = "string"
                        /\ \E k \in keys : KeyTypeOf(d, k) = String /\ k \in DOMAIN d.Strings
           patterns == (IF IsPattern(q.key) THEN {q.key} ELSE {})
                          \cup (IF usesValue THEN {q.value.s} ELSE {})
       IN \E r1 \in (IF IsPattern(q.key) THEN CacheAfter(rx, q.key) ELSE {rx}) :
          \E r2 \in (IF usesValue THEN CacheAfter(r1, q.value.s) ELSE {r1}) :
          \E order \in Orders(keys) :
             LET valRe == IF usesValue THEN getCompiledRegexRe(r1, q.value.s) ELSE q.value.s
                 hits == FilterHitsIn(d, q.operator, order,
                                      [q.value EXCEPT !.s = valRe], q.insensitive)
             IN /\ rx' = r2
                /\ res' = [store |-> InsertHits(NewStore(d.TTL), d, hits, 1, now),
                           q |-> q, hits |-> hits]
                /\ last' = [op |-> CacheDid(rx, patterns), id |-> 0, conflicts |-> {},
                            err |-> FALSE]
    /\ UNCHANGED <<scanNow, d, df, snap, now, nextId, cleaner, toRemove, app, acc, stop, lk, ex, found, ap>>

TransparentInputRows ==
    { <<KV("sa", GoString("Xy"))>>,
      <<KV("sa", GoString("xy")), KV("sb", GoString("Xy"))>> }

TransparentQueries ==
    { Query(RegExp, "sa", ArgString("^X")), Query(NotRegExp, "sa", ArgString("^X")),
      Query(RegExp, "sa", ArgString("y$")), Query(RegExp, "sa", ArgString("(x")),
      Query(Equals, "^sa", ArgString("Xy")), Query(Equals, "^s", ArgString("Xy")),
      Query(RegExp, "^s", ArgString("^x")), Query(Equals, "sa", ArgString("xy")) }

NextTransparent ==
    \/ \E maxRegexCache \in {0, 1} : InitWithOptions(maxRegexCache)
    \/ FilterIdle /\ \E data \in TransparentInputRows : Insert(data)
    \/ FilterIdle /\ \E q \in TransparentQueries : FilterCached(q)
    \/ Discard
    \/ ClearRegexCacheMap
    \/ ClearRegexCacheSize

SpecTransparent == Init /\ [][NextTransparent]_vars

(***************************************************************************)
(* The reaper next to Insert, RemoveElement and the binary snapshot.       *)
(***************************************************************************)
ReapInputRows ==
    { <<KV("s", GoString("x"))>>,
      <<KV("t", GoTime(1))>>,
      <<KV("t", GoTime(1)), KV("n", GoInt(1))>> }

NextReap ==
    \/ Tick
    \/ \E data \in ReapInputRows : Insert(data)
    \/ \E id \in 1..MaxRows : RemoveElement(id)
    \/ StartCleaner
    \/ CleanExpiredScan
    \/ CleanExpiredRemove
    \/ SaveToFile
    \/ LoadFromFile

SpecReap == Init /\ [][NextReap]_vars

Next ==
    \/ Tick
    \/ \E data \in InputRows : Insert(data)
    \/ \E id \in 1..MaxRows : RemoveElement(id)
    \/ StartCleaner
    \/ CleanExpiredScan
    \/ CleanExpiredRemove

Spec == Init /\ [][Next]_vars

\* The ticker fires every second and the cleaner goroutine is scheduled.
FairSpec ==
    /\ Init
    /\ [][Next]_vars
    /\ WF_vars(CleanExpiredScan)
    /\ WF_vars(CleanExpiredRemove)

(***************************************************************************)
(* Presence of a row id in the store.                                      *)
(***************************************************************************)
Minted == 1..(nextId - 1)

\* id is in no id-set of any of the four typed indexes.
Unindexed(st, id) == id \notin IndexedIds(st)

Absent(st, id) ==
    /\ id \notin DOMAIN st.Data
    /\ id \notin DOMAIN st.ExpireAt
    /\ Unindexed(st, id)

\* id is in Data, in ExpireAt and in the id-set of every leaf accepted for it.
Present(st, id) ==
    /\ id \in DOMAIN st.Data
    /\ id \in DOMAIN st.ExpireAt
    /\ id \in DOMAIN acc
    /\ \A l \in acc[id] : id \in IdSet(IndexOf(st, l.t), l.f, LeafValue(l))

NoEmptyEntries(st) ==
    \A t \in KeyTypes :
        \A f \in DOMAIN IndexOf(st, t) :
            /\ DOMAIN IndexOf(st, t)[f] # {}
            /\ \A v \in DOMAIN IndexOf(st, t)[f] : IndexOf(st, t)[f][v] # {}

\* The value a row holds, as the value of the index of type t.
RowValue(x) ==
    CASE x.t = String -> x.s
      [] x.t = Numeric -> x.n
      [] x.t = Boolean -> x.b
      [] x.t = Time -> x.n

(***************************************************************************)
(* C2: after RemoveElement(r) returns, r is absent from Data, from         *)
(* ExpireAt and from every id-set of the four typed indexes, and no index  *)
(* keeps an empty id-set or an empty per-field value map.                  *)
(***************************************************************************)
C2_RemoveElementClearsAll ==
    last.op \in {"RemoveElement", "Reap"} =>
        /\ Absent(d, last.id)
        /\ NoEmptyEntries(d)

(***************************************************************************)
(* C3: reverse consistency: for every field f, value v and row id r with   *)
(* r in I_t[f][v], in any of the four typed indexes, r is in Data and      *)
(* Data[r][f] = v.                                                         *)
(***************************************************************************)
C3_ReverseConsistency ==
    \A t \in KeyTypes :
        \A f \in DOMAIN IndexOf(d, t) :
            \A v \in DOMAIN IndexOf(d, t)[f] :
                \A r \in IndexOf(d, t)[f][v] :
                    /\ r \in DOMAIN d.Data
                    /\ f \in DOMAIN d.Data[r]
                    /\ d.Data[r][f].t = t
                    /\ RowValue(d.Data[r][f]) = v

(***************************************************************************)
(* C4: forward consistency, in the receiver and in the source store of an  *)
(* Append: for every row r in Data and every field f with value v in       *)
(* Data[r], Keys[f] is defined and equals v's variant, and r is in the     *)
(* id-set of the matching typed index under (f, v).                        *)
(***************************************************************************)
ForwardConsistent(st) ==
    \A r \in DOMAIN st.Data :
        \A f \in DOMAIN st.Data[r] :
            /\ f \in DOMAIN st.Keys
            /\ st.Keys[f] = st.Data[r][f].t
            /\ r \in IdSet(IndexOf(st, st.Data[r][f].t), f, RowValue(st.Data[r][f]))

C4_ForwardConsistency == ForwardConsistent(d) /\ ForwardConsistent(df)

(***************************************************************************)
(* C5: dom(Data) = dom(ExpireAt) in every state observable outside a lock  *)
(* acquisition, after any sequence of Insert, InsertWithError, Append,     *)
(* RemoveElement, reaper removals and Load/Import of a snapshot written by *)
(* Save/Export; the same holds in every store returned by Filter.          *)
(***************************************************************************)
SameDomain(st) == DOMAIN st.Data = DOMAIN st.ExpireAt

C5_DataExpireAtSameDomain ==
    /\ SameDomain(d)
    /\ SameDomain(df)
    /\ SameDomain(res.store)

\* Filter has returned rows of a store that ImportFromJSON restored.
C5_Witness ==
    /\ last.op = "ImportFromJSON"
    /\ DOMAIN d.Data # {}
    /\ res.q # NoQuery
    /\ DOMAIN res.store.Data # {}

(***************************************************************************)
(* C6: a type commitment survives as long as a live row carries the field: *)
(* for every field f accepted for a row still in the store, Keys[f] is     *)
(* defined and equals the committed type.                                  *)
(***************************************************************************)
C6_CommitmentSurvives ==
    \A r \in DOMAIN d.Data :
        \A l \in acc[r] :
            /\ l.f \in DOMAIN d.Keys
            /\ d.Keys[l.f] = l.t

(***************************************************************************)
(* C7: per-field single variant: no field name is a key of more than one   *)
(* of the four typed indexes.                                              *)
(***************************************************************************)
C7_SingleVariant ==
    \A t1 \in KeyTypes :
        \A t2 \in KeyTypes \ {t1} :
            DOMAIN IndexOf(d, t1) \cap DOMAIN IndexOf(d, t2) = {}

(***************************************************************************)
(* C8: type conflict on Insert: when a row carries a field f whose variant *)
(* differs from the existing commitment Keys[f], Insert still adds the row *)
(* (Count grows by 1) with all its non-conflicting fields indexed, the row *)
(* has no f entry, and Keys[f] and every index entry under f are unchanged.*)
(***************************************************************************)
C8_Post(data) ==
    \A f \in ConflictFields(d, data) :
        /\ Cardinality(DOMAIN d'.Data) = Cardinality(DOMAIN d.Data) + 1
        /\ nextId \in DOMAIN d'.Data
        /\ nextId \in DOMAIN d'.ExpireAt
        /\ f \notin DOMAIN d'.Data[nextId]
        /\ f \in DOMAIN d'.Keys
        /\ d'.Keys[f] = d.Keys[f]
        /\ \A t \in KeyTypes :
              /\ f \in DOMAIN IndexOf(d', t) <=> f \in DOMAIN IndexOf(d, t)
              /\ f \in DOMAIN IndexOf(d, t) => IndexOf(d', t)[f] = IndexOf(d, t)[f]
        /\ \A l \in FreeLeaves(d, data) :
              /\ nextId \in IdSet(IndexOf(d', l.t), l.f, LeafValue(l))
              /\ d'.Keys[l.f] = l.t

C8_TypeConflictDropsField ==
    [][\A data \in InputRows : Insert(data) => C8_Post(data)]_vars

\* An Insert has just dropped a conflicting field and indexed another one.
C8_Witness ==
    /\ last.op = "Insert"
    /\ last.conflicts # {}
    /\ last.id \in DOMAIN d.Data
    /\ DOMAIN d.Data[last.id] # {}

(***************************************************************************)
(* C10: reaper deletion is atomic per row: in every state a reader can     *)
(* observe, the row the reaper deleted is either present in Data, ExpireAt *)
(* and the index entry of each of its fields, or absent from all of them.  *)
(***************************************************************************)
C10_ReapAtomic ==
    last.op = "Reap" => (Present(d, last.id) \/ Absent(d, last.id))

(***************************************************************************)
(* C1: Filter(op, f, v, nil), for op applicable to f's type and v          *)
(* well-typed, returns a store holding exactly one row for each live row   *)
(* whose inserted value for f satisfies op: no result row stands for a     *)
(* removed row and no live matching row is missing.                        *)
(***************************************************************************)
\* The live rows whose inserted value for q.key satisfies q.
Satisfying(st, q) ==
    {r \in DOMAIN st.Data :
        \E l \in acc[r] :
            /\ l.f = q.key
            /\ Applicable(l.t, q.operator)
            /\ ValueOk(l.t, q.operator, q.value)
            /\ Matches(l.t, q.operator, LeafValue(l), q.value, q.insensitive)}

C1_FilterExact ==
    res.q # NoQuery =>
        /\ \A r \in Satisfying(d, res.q) :
              Cardinality({i \in 1..Len(res.hits) : res.hits[i] = r}) = 1
        /\ \A i \in 1..Len(res.hits) : res.hits[i] \in Satisfying(d, res.q)
        /\ Cardinality(DOMAIN res.store.Data) = Cardinality(Satisfying(d, res.q))

(***************************************************************************)
(* C9: TTL expiry: while the cleaner runs, every row whose expiry instant  *)
(* has passed is eventually gone from Data, from ExpireAt and from all     *)
(* four typed indexes, and Filter on its fields no longer returns it.      *)
(***************************************************************************)
FieldQueries ==
    { Query(Equals, "f", ArgString("x")), Query(Equals, "f", ArgFloat64(1)),
      Query(NotEquals, "f", ArgFloat64(0)), Query(Between, "f", ArgTimes(<<1, 2>>)),
      Query(NotEquals, "g", ArgString("")), Query(Equals, "g", ArgBool(TRUE)),
      Query(NotEquals, "a.b", ArgString("")), Query(NotEquals, "l.0", ArgString("")) }

Returned(st, q, id) ==
    \E i \in 1..Len(FilterHits(st, q.operator, q.key, q.value, q.insensitive)) :
        FilterHits(st, q.operator, q.key, q.value, q.insensitive)[i] = id

Gone(st, id) ==
    /\ Absent(st, id)
    /\ \A q \in FieldQueries : ~Returned(st, q, id)

IsExpired(st, id) == id \in DOMAIN st.ExpireAt /\ st.ExpireAt[id] < now

C9_ExpiredEventuallyGone ==
    \A id \in 1..MaxRows :
        (cleaner # "off" /\ IsExpired(d, id)) ~> Gone(d, id)

(***************************************************************************)
(* C11: StopCleaner is idempotent-safe: a call to StopCleaner on a store   *)
(* whose cleaner is not running (never started, or already stopped)        *)
(* returns; it never blocks forever.                                       *)
(***************************************************************************)
C11_StopCleanerReturns ==
    (stop = "sending" /\ cleaner = "off") ~> (stop = "idle")

(***************************************************************************)
(* C12: Load keeps the cleaner: if the cleaner is running when             *)
(* LoadFromFile or ImportFromJSON is called, it is stopped before the      *)
(* state is replaced and exactly one cleaner is running when the call has  *)
(* returned, for every outcome of the call and whatever the cleaner was    *)
(* doing; if none was running, none is started.                            *)
(***************************************************************************)
C12_Kept(refused) ==
    /\ cleaner = "off" => cleaner' = "off"
    /\ cleaner # "off" => cleaner' # "off"
    /\ (cleaner # "off" /\ ~refused) => (cleaner' = "select" /\ toRemove' = {})

C12_LoadKeepsCleaner ==
    [][/\ LoadFromFile => C12_Kept(LoadRefused(d, snap))
       /\ ImportFromJSON => C12_Kept(ImportRefused(d, snap))]_vars

(***************************************************************************)
(* C13: binary round trip: SaveToFile followed by LoadFromFile into a      *)
(* fresh store yields Data, Keys, all four typed indexes, ExpireAt and TTL *)
(* equal to those of the saved store, whatever TTL the fresh store was     *)
(* initialised with.                                                       *)
(***************************************************************************)
\* The TTLs a fresh store is initialised with.
FreshTTLs == 0..(InitTTL + 1)

\* The file SaveToFile writes for st.
GobFile(st) == [format |-> "gob", content |-> <<persistentDataFrame(st)>>, acc |-> EmptyMap]

\* df2.Init(ttl); df2.LoadFromFile(file)
LoadFresh(file, ttl) ==
    IF LoadRefused(NewStore(ttl), file) THEN NewStore(ttl)
    ELSE LoadStore(NewStore(ttl), file.content[1])

SameContent(a, b) ==
    /\ a.Data = b.Data
    /\ a.Keys = b.Keys
    /\ a.Strings = b.Strings
    /\ a.Numerics = b.Numerics
    /\ a.Booleans = b.Booleans
    /\ a.Times = b.Times
    /\ a.ExpireAt = b.ExpireAt
    /\ a.TTL = b.TTL

JSONFile(st) == [format |-> "json", content |-> <<jsonDataFrame(st)>>, acc |-> EmptyMap]

\* df2.Init(ttl); df2.ImportFromJSON(file)
ImportFresh(file, ttl) ==
    IF ImportRefused(NewStore(ttl), file) THEN NewStore(ttl)
    ELSE ImportStore(NewStore(ttl), file.content[1])

JSONQueries ==
    { Query(Equals, "name", ArgString("x")),
      Query(Between, "created", ArgTimes(<<0, 1>>)),
      Query(Equals, "nested.city", ArgString("x")) }

Count(st, q) == Len(FilterHits(st, q.operator, q.key, q.value, q.insensitive))

C14_TextRoundTrip ==
    \A ttl \in FreshTTLs :
        LET imp == ImportFresh(JSONFile(d), ttl)
        IN /\ imp.Keys = d.Keys
           /\ \A t \in KeyTypes : IndexOf(imp, t) = IndexOf(d, t)
           /\ \A q \in JSONQueries : Count(imp, q) = Count(d, q)
           /\ \A r \in DOMAIN d.Data :
                 \A l \in acc[r] :
                     l.t = Time => /\ r \in DOMAIN imp.Data
                                   /\ l.f \in DOMAIN imp.Data[r]
                                   /\ imp.Data[r][l.f].t = Time

(***************************************************************************)
(* C15: version gate: LoadFromFile or ImportFromJSON of a snapshot whose   *)
(* version is greater than the store's Version returns an error and leaves *)
(* Data, ExpireAt, Keys, the four indexes and TTL of the store unchanged;  *)
(* a snapshot whose version is equal or lower is accepted.                 *)
(***************************************************************************)
C15_Refused ==
    /\ last'.err
    /\ SameContent(d', d)

C15_GobGate ==
    IF snap.content[1].Version > d.Version THEN C15_Refused
    ELSE /\ ~last'.err
         /\ SameContent(d', snap.content[1])

C15_JSONGate ==
    IF snap.content[1].Version > d.Version THEN C15_Refused
    ELSE /\ ~last'.err
         /\ d'.Keys = snap.content[1].Keys
         /\ d'.TTL = ParseDuration(snap.content[1].TTL).ttl
         /\ Cardinality(DOMAIN d'.Data) = Cardinality(DOMAIN snap.content[1].Data)
         /\ Cardinality(DOMAIN d'.ExpireAt) = Cardinality(DOMAIN snap.content[1].ExpireAt)

C15_VersionGate ==
    [][/\ (LoadFromFile /\ snap.format = "gob") => C15_GobGate
       /\ (ImportFromJSON /\ snap.format = "json") => C15_JSONGate]_vars

\* A load has just been refused by the gate on a store that holds rows.
C15_Witness ==
    /\ last.op \in {"LoadFromFile", "ImportFromJSON"}
    /\ last.err
    /\ snap.format # "none"
    /\ snap.content[1].Version > d.Version
    /\ DOMAIN d.Data # {}
    /\ Cardinality(DOMAIN snap.content[1].Data) # Cardinality(DOMAIN d.Data)

(***************************************************************************)
(* C16: pattern key union: when the key of Filter contains '^', '[' or '('  *)
(* and compiles, the result holds exactly one row for each live source row *)
(* that satisfies the predicate on at least one committed field whose name *)
(* matches, so a row that matches on several fields appears once and the   *)
(* result Count never exceeds the source Count.                            *)
(***************************************************************************)
SatisfyingAny(st, q) ==
    {r \in DOMAIN st.Data :
        \E l \in acc[r] :
            /\ l.f \in FilterKeys(st, q.key)
            /\ Applicable(l.t, q.operator)
            /\ ValueOk(l.t, q.operator, q.value)
            /\ Matches(l.t, q.operator, LeafValue(l), q.value, q.insensitive)}

C16_PatternKeyUnion ==
    (res.q # NoQuery /\ IsPattern(res.q.key) /\ RegexpCompiles(res.q.key)) =>
        /\ \A r \in SatisfyingAny(d, res.q) :
              Cardinality({i \in 1..Len(res.hits) : res.hits[i] = r}) = 1
        /\ \A i \in 1..Len(res.hits) : res.hits[i] \in SatisfyingAny(d, res.q)
        /\ Cardinality(DOMAIN res.store.Data) = Cardinality(SatisfyingAny(d, res.q))
        /\ Cardinality(DOMAIN res.store.Data) <= Cardinality(DOMAIN d.Data)

(***************************************************************************)
(* C17: Between and NotBetween bounds: for a Number or Time field f and    *)
(* any a, b, Filter(Between, f, [a, b]) and Filter(Between, f, [b, a])     *)
(* return the same rows, the live rows whose value of f lies in            *)
(* [min(a, b), max(a, b)] inclusive, and NotBetween returns exactly the    *)
(* other live rows carrying f, whatever the order of the ends.             *)
(***************************************************************************)
Carrying(st, f, keyType) ==
    {r \in DOMAIN st.Data : \E l \in acc[r] : l.f = f /\ l.t = keyType}

Within(st, f, keyType, a, b) ==
    {r \in DOMAIN st.Data :
        \E l \in acc[r] :
            /\ l.f = f /\ l.t = keyType
            /\ LeafValue(l) >= (IF a < b THEN a ELSE b)
            /\ LeafValue(l) <= (IF a < b THEN b ELSE a)}

Rows(hits) == {hits[i] : i \in 1..Len(hits)}

RangeRows(st, operator, f, keyType, a, b) ==
    Rows(FilterHits(st, operator, f, RangeArg(keyType, a, b), FALSE))

C17_BetweenBounds ==
    \A f \in {"n", "t"}, keyType \in {Numeric, Time}, a \in RangeEnds, b \in RangeEnds :
        KeyTypeOf(d, f) = keyType =>
            /\ RangeRows(d, Between, f, keyType, a, b) = Within(d, f, keyType, a, b)
            /\ RangeRows(d, Between, f, keyType, b, a) = Within(d, f, keyType, a, b)
            /\ RangeRows(d, NotBetween, f, keyType, a, b)
                  = Carrying(d, f, keyType) \ Within(d, f, keyType, a, b)
            /\ RangeRows(d, NotBetween, f, keyType, b, a)
                  = Carrying(d, f, keyType) \ Within(d, f, keyType, a, b)

(***************************************************************************)
(* C18: filters chain: the store Filter returns has the TTL of the source  *)
(* and carries every field of each source row, of any of the four types,   *)
(* indexed under the same type, so s.Filter(p1).Filter(p2) returns exactly *)
(* the live rows of s that satisfy both p1 and p2, also when p2 is Between *)
(* or NotBetween on a Time field.                                          *)
(***************************************************************************)
\* The leaves the indexes of st hold for id.
IndexedLeaves(st, id) ==
    UNION {UNION {{Leaf(f, kt,
                        IF kt = String THEN v ELSE "",
                        IF kt \in {Numeric, Time} THEN v ELSE 0,
                        IF kt = Boolean THEN v ELSE FALSE) :
                      v \in {w \in DOMAIN IndexOf(st, kt)[f] : id \in IndexOf(st, kt)[f][w]}} :
                  f \in DOMAIN IndexOf(st, kt)} :
           kt \in KeyTypes}

\* The source rows s.Filter(p1).Filter(p2) returns.
ChainRows(st, p1, p2, t) ==
    LET h1 == FilterHits(st, p1.operator, p1.key, p1.value, p1.insensitive)
        s1 == FilterStore(st, p1.operator, p1.key, p1.value, p1.insensitive, t)
        h2 == FilterHits(s1, p2.operator, p2.key, p2.value, p2.insensitive)
    IN {h1[h2[j]] : j \in 1..Len(h2)}

C18_FiltersChain ==
    \A p1 \in ChainQueries :
        LET h1 == FilterHits(d, p1.operator, p1.key, p1.value, p1.insensitive)
            s1 == FilterStore(d, p1.operator, p1.key, p1.value, p1.insensitive, now)
        IN /\ s1.TTL = d.TTL
           /\ \A i \in 1..Len(h1) :
                 h1[i] \in DOMAIN d.Data => IndexedLeaves(s1, i) = acc[h1[i]]
           /\ \A p2 \in ChainQueries :
                 ChainRows(d, p1, p2, now) = Satisfying(d, p1) \cap Satisfying(d, p2)

(***************************************************************************)
(* C19: degraded queries return empty: for a literal key, Filter returns a *)
(* store with Count 0 whenever the field is not in Keys, or the operator   *)
(* is not applicable to the committed type of the field, or the type or    *)
(* shape of the value does not fit the operator.                           *)
(***************************************************************************)
Comparisons == {Equals, NotEquals, Major, Minor, MajorEquals, MinorEquals}

Ranges == {Between, NotBetween}

Lists == {InList, NotInList}

NotCommitted(st, q) == q.key \notin DOMAIN st.Keys

NotApplicable(st, q) ==
    /\ q.key \in DOMAIN st.Keys
    /\ \/ st.Keys[q.key] = String /\ q.operator \in ({Major, Minor, MajorEquals, MinorEquals} \cup Ranges)
       \/ st.Keys[q.key] = Numeric /\ q.operator \notin (Comparisons \cup Lists \cup Ranges)
       \/ st.Keys[q.key] = Boolean /\ q.operator \notin {Equals, NotEquals}
       \/ st.Keys[q.key] = Time /\ q.operator \notin Ranges

ValueMisfit(st, q) ==
    /\ q.key \in DOMAIN st.Keys
    /\ \/ st.Keys[q.key] = Numeric /\ q.operator \in Comparisons /\ q.value.kind # "float64"
       \/ st.Keys[q.key] = Numeric /\ q.operator \in Lists /\ q.value.kind # "[]float64"
       \/ st.Keys[q.key] = Numeric /\ q.operator \in Ranges
            /\ (q.value.kind # "[]float64" \/ Len(q.value.l) # 2)
       \/ st.Keys[q.key] = Time /\ q.operator \in Ranges
            /\ (q.value.kind # "[]time.Time" \/ Len(q.value.l) # 2)
       \/ st.Keys[q.key] = String /\ q.operator \in Lists /\ q.value.kind # "[]string"
       \/ st.Keys[q.key] = String /\ q.operator \notin Lists /\ q.value.kind # "string"
       \/ st.Keys[q.key] = Boolean /\ q.value.kind # "bool"

Degraded(st, q) == NotCommitted(st, q) \/ NotApplicable(st, q) \/ ValueMisfit(st, q)

C19_DegradedEmpty ==
    (res.q # NoQuery /\ ~IsPattern(res.q.key) /\ Degraded(d, res.q)) =>
        /\ res.hits = <<>>
        /\ Cardinality(DOMAIN res.store.Data) = 0

\* A Boolean field holds a row with false, and Filter was given a string for it.
C19_Witness ==
    /\ res.q = Query(Equals, "b", ArgString("x"))
    /\ ValueMisfit(d, res.q)
    /\ IdSet(d.Booleans, "b", FALSE) \cap DOMAIN d.Data # {}
    /\ Cardinality(DOMAIN res.store.Data) = 0

(***************************************************************************)
(* C20: malformed pattern or network literal: Filter with RegExp or        *)
(* NotRegExp and a pattern that does not compile, and Filter with InCIDR   *)
(* or NotInCIDR and a CIDR that does not parse, return an empty result in  *)
(* every state of the store; with a CIDR that parses, a row whose text     *)
(* under the key is not an IP literal is never in the InCIDR result.       *)
(***************************************************************************)
BadPattern(q) ==
    q.operator \in {RegExp, NotRegExp} /\ q.value.kind = "string" /\ ~RegexpCompiles(q.value.s)

BadCIDR(q) ==
    q.operator \in {InCIDR, NotInCIDR} /\ q.value.kind = "string"
        /\ q.value.s \notin DOMAIN ParseCIDR

\* Row r carries an IP literal under a key the query selects.
HasIPText(st, q, r) ==
    r \in DOMAIN st.Data
        /\ \E l \in acc[r] : l.f \in FilterKeys(st, q.key) /\ l.t = String /\ l.s \in DOMAIN ParseIP

C20_MalformedEmpty ==
    res.q # NoQuery =>
        /\ (BadPattern(res.q) \/ BadCIDR(res.q)) =>
              res.hits = <<>> /\ Cardinality(DOMAIN res.store.Data) = 0
        /\ (res.q.operator = InCIDR /\ res.q.value.kind = "string"
                /\ res.q.value.s \in DOMAIN ParseCIDR) =>
              \A i \in 1..Len(res.hits) : HasIPText(d, res.q, res.hits[i])

\* Live rows carry text under s, and NotInCIDR was given a CIDR without a mask.
C20_Witness ==
    /\ res.q = Query(NotInCIDR, "s", ArgString("10.0.0.0"))
    /\ "s" \in DOMAIN d.Strings
    /\ \E r \in DOMAIN d.Data : \E l \in acc[r] : l.f = "s" /\ l.t = String
    /\ res.hits = <<>>

(***************************************************************************)
(* C21: numeric classification: a leaf value of any signed or unsigned     *)
(* integer width or of either floating width is committed as Number,       *)
(* stored in the row as a float64 and indexed in Numerics, so that         *)
(* Filter(Equals, f, float64(v)) finds the row.                            *)
(***************************************************************************)
C21_Post(data) ==
    \A i \in 1..Len(data) :
        LET f == data[i].k
            v == data[i].v.n
        IN /\ f \in DOMAIN d'.Keys /\ d'.Keys[f] = Numeric
           /\ f \in DOMAIN d'.Data[nextId] /\ d'.Data[nextId][f] = NumVal(v)
           /\ nextId \in IdSet(d'.Numerics, f, v)
           /\ \E j \in 1..Len(FilterHits(d', Equals, f, ArgFloat64(v), FALSE)) :
                 FilterHits(d', Equals, f, ArgFloat64(v), FALSE)[j] = nextId

C21_NumericClassification ==
    [][\A data \in NumericInputRows : Insert(data) => C21_Post(data)]_vars

(***************************************************************************)
(* C22: Append copies every row: each iteration of d.Append(other, tag)    *)
(* grows Count(d) by one, and the copied row exists in d under a fresh id  *)
(* with every field of its source row plus a Text field "key" = tag, all   *)
(* of them indexed in d, subject only to the type commitments d had.       *)
(***************************************************************************)
\* The leaf l does not conflict with a commitment of st.
Admissible(st, l) == l.f \in DOMAIN st.Keys => st.Keys[l.f] = l.t

C22_Post ==
    LET r == CHOOSE x \in app.pending : x \notin app'.pending
        copied == {l \in IndexedLeaves(df, r) : l.f # "key"}
                    \cup {Leaf("key", String, AppendKey, 0, FALSE)}
    IN /\ nextId \notin DOMAIN d.Data
       /\ Cardinality(DOMAIN d'.Data) = Cardinality(DOMAIN d.Data) + 1
       /\ \A l \in copied :
             Admissible(d, l) =>
                /\ l \in IndexedLeaves(d', nextId)
                /\ l.f \in DOMAIN d'.Data[nextId]
                /\ RowValue(d'.Data[nextId][l.f]) = LeafValue(l)

C22_AppendCopiesRows == [][AppendRow => C22_Post]_vars

(***************************************************************************)
(* C23: the regex cache is bounded: after any sequence and interleaving of *)
(* calls that compile patterns, of ClearRegexCache and of Load of a        *)
(* snapshot, the number of cached compiled patterns never exceeds the      *)
(* configured maximum.                                                     *)
(***************************************************************************)
C23_RegexCacheBounded == Cardinality(rx.cache) <= rx.max

(***************************************************************************)
(* C24: no lost inserts under concurrency: with concurrent callers of      *)
(* Insert and Filter while the reaper runs and no row has expired, every   *)
(* Insert takes effect exactly once, so that Count equals the number of    *)
(* Insert calls once all of them have returned, and every Filter sees a    *)
(* state in which each row is inserted in full (Data, ExpireAt and         *)
(* indexes) or not at all.                                                 *)
(***************************************************************************)
InsertedInFull(st) ==
    /\ SameDomain(st)
    /\ IndexedIds(st) \subseteq DOMAIN st.Data
    /\ ForwardConsistent(st)

C24_AllReturned == lk.writer = NoWriter => Cardinality(DOMAIN d.Data) = lk.calls

C24_FilterSeesWholeRows ==
    \A q \in ConcurrentQueries : FilterRLocked(q) => InsertedInFull(d)

C24_NoLostInserts == [](C24_AllReturned) /\ [][C24_FilterSeesWholeRows]_vars

\* Every caller has returned, the reaper is running, and Filter found a row.
C24_Witness ==
    /\ lk.writer = NoWriter
    /\ lk.calls = MaxRows
    /\ cleaner # "off"
    /\ res.q \in ConcurrentQueries
    /\ Len(res.hits) >= 1

(***************************************************************************)
(* C25: InsertWithError rejects a nil or empty row with an error and       *)
(* leaves Data, ExpireAt, Keys and all indexes unchanged; for any other    *)
(* row it returns nil and has exactly the effect of Insert, and Count      *)
(* grows by one.                                                           *)
(***************************************************************************)
C25_Post(data) ==
    IF Len(data) = 0
    THEN /\ last'.op = "InsertWithError" /\ last'.err
         /\ d' = d
    ELSE /\ ~last'.err
         /\ Insert(data)
         /\ Cardinality(DOMAIN d'.Data) = Cardinality(DOMAIN d.Data) + 1

C25_InsertWithError ==
    [][\A data \in InputRows \cup {<<>>} : InsertWithError(data) => C25_Post(data)]_vars

\* An empty row was just refused by a store that holds a row.
C25_Witness ==
    /\ last.op = "InsertWithError" /\ last.err
    /\ DOMAIN d.Data # {}
    /\ nextId <= MaxRows

(***************************************************************************)
(* C26.  Explain is read-only: whatever the operator, the key (literal or  *)
(* pattern) and the value, a call of Explain leaves Data, ExpireAt, Keys,  *)
(* the four typed indexes and TTL as they were, and the TotalRows of the   *)
(* plan it returns is Count(), the number of rows of the store.            *)
(***************************************************************************)
C26_ExplainReadOnly ==
    [][\A q \in ExplainQueries :
          Explain(q) =>
              /\ d'.Data = d.Data /\ d'.ExpireAt = d.ExpireAt /\ d'.Keys = d.Keys
              /\ \A t \in KeyTypes : IndexOf(d', t) = IndexOf(d, t)
              /\ d'.TTL = d.TTL
              /\ ex'.TotalRows = Cardinality(DOMAIN d'.Data)]_vars

\* A plan for a pattern key on a store that holds rows and committed fields.
C26_Witness ==
    /\ ex.q # NoQuery /\ IsPattern(ex.q.key) /\ ex.matches > 0
    /\ ex.TotalRows = 2 /\ Cardinality(DOMAIN d.Keys) > 2


(***************************************************************************)
(* C27.  Explain's estimate is exact for probe and range predicates: for a *)
(* literal key on a committed field, a well-typed value and Equals,        *)
(* NotEquals, Greater, Less, GreaterOrEqual, LessOrEqual, Between or       *)
(* NotBetween on a Number field, Equals, NotEquals, InList or NotInList on *)
(* a Text field, Equals or NotEquals on a Bool field, Between or           *)
(* NotBetween on a Time field, EstimatedRows is the Count of the store     *)
(* that Filter returns for the same query on the same state.               *)
(***************************************************************************)
Exact(st, q) ==
    /\ ~IsPattern(q.key)
    /\ q.key \in DOMAIN st.Keys
    /\ ValueOk(st.Keys[q.key], q.operator, q.value)
    /\ q.operator \in
          (CASE st.Keys[q.key] = Numeric ->
                    {Equals, NotEquals, Major, Minor, MajorEquals, MinorEquals,
                     Between, NotBetween}
             [] st.Keys[q.key] = String -> {Equals, NotEquals, InList, NotInList}
             [] st.Keys[q.key] = Boolean -> {Equals, NotEquals}
             [] st.Keys[q.key] = Time -> {Between, NotBetween})

C27_ExplainExact ==
    [][\A q \in ExplainQueries :
          Exact(d, q) =>
              /\ Explain(q) =>
                    \E order \in Orders(FilterKeys(d, q.key)) :
                        ex'.EstimatedRows =
                            Cardinality(DOMAIN InsertHits(NewStore(d.TTL), d,
                                FilterHitsIn(d, q.operator, order, q.value, q.insensitive),
                                1, now).Data)
              /\ Filter(q) =>
                    Cardinality(DOMAIN res'.store.Data) = ExplainResult(d, q).EstimatedRows]_vars

\* A plan that estimates two rows for a range over a Number field.
C27_Witness ==
    /\ ex.q # NoQuery /\ Exact(d, ex.q)
    /\ ex.q.operator = Between /\ ex.KeyType = "Numeric" /\ ex.EstimatedRows = 2


(***************************************************************************)
(* C28.  Every committed field is indexed: in every state reached by       *)
(* Insert, RemoveElement, removals by the reaper and ExportToJSON followed *)
(* by ImportFromJSON, each field in Keys is a key of the typed index of    *)
(* the type it is committed to.                                            *)
(***************************************************************************)
C28_CommittedFieldIndexed ==
    \A f \in DOMAIN d.Keys : f \in DOMAIN IndexOf(d, d.Keys[f])


(***************************************************************************)
(* C29.  Stop takes effect: once StopCleaner has returned on a store with  *)
(* a running reaper, the reaper has left its loop, and until StartCleaner  *)
(* is called again no reaper runs and no row is removed by it, rows whose  *)
(* expiry has passed included.                                             *)
(***************************************************************************)
C29_StopTakesEffect ==
    [][/\ CleanExpiredStop => (cleaner' = "off" /\ d' = d)
       /\ (cleaner = "off" /\ ~StartCleaner) =>
              /\ cleaner' = "off"
              /\ ~CleanExpiredScan /\ ~CleanExpiredRemove
              /\ \A id \in Expired(d, now) : id \in DOMAIN d'.Data]_vars

\* StopCleaner has returned, the reaper is gone and an expired row is still
\* in the store.
C29_Witness ==
    /\ last.op = "StopCleaner" /\ stop = "idle" /\ cleaner = "off"
    /\ Expired(d, now) # {}

(***************************************************************************)
(* C30.  Error paths keep the invariants: whenever LoadFromFile or         *)
(* ImportFromJSON returns an error on a store that satisfied them, the     *)
(* store afterwards still has dom(Data) = dom(ExpireAt), forward and       *)
(* reverse index consistency and no empty maps in its indexes.             *)
(***************************************************************************)
ReverseConsistent(st) ==
    \A t \in KeyTypes :
        \A f \in DOMAIN IndexOf(st, t) :
            \A v \in DOMAIN IndexOf(st, t)[f] :
                \A r \in IndexOf(st, t)[f][v] :
                    /\ r \in DOMAIN st.Data
                    /\ f \in DOMAIN st.Data[r]
                    /\ st.Data[r][f].t = t
                    /\ RowValue(st.Data[r][f]) = v

StoreInvariants(st) ==
    /\ SameDomain(st)
    /\ ForwardConsistent(st)
    /\ ReverseConsistent(st)
    /\ NoEmptyEntries(st)

C30_ErrorPathsKeepInvariants ==
    [][(LoadFromFile \/ ImportFromJSON) /\ last'.err /\ StoreInvariants(d)
          => StoreInvariants(d')]_vars


(***************************************************************************)
(* C31.  FindFirstByKey(f) for a literal field name returns (uuid.Nil, "", *)
(* nil) exactly when no live row carries f; otherwise it returns the id of *)
(* a row in Data that carries f, the name f and the value that row holds   *)
(* for f, which is not nil, whatever the type of the field.  In            *)
(* particular a removed row is never returned.                             *)
(***************************************************************************)
CarriersOf(key) ==
    {r \in DOMAIN d.Data : r \in DOMAIN acc /\ \E l \in acc[r] : l.f = key}

C31_Post(key) ==
    /\ found'.id = 0 <=> CarriersOf(key) = {}
    /\ found'.id = 0 => found'.name = "" /\ found'.value = NilVal
    /\ found'.id # 0 =>
          /\ found'.id \in CarriersOf(key)
          /\ found'.name = key
          /\ found'.value # NilVal
          /\ \E l \in acc[found'.id] :
                l.f = key /\ found'.value.t = l.t /\ RowValue(found'.value) = LeafValue(l)

C31_FindFirstByKey ==
    [][\A key \in FindKeys : (~IsPattern(key) /\ FindFirstByKey(key)) => C31_Post(key)]_vars


(***************************************************************************)
(* C32.  Filter is read-only on its source: whatever the operator, key,    *)
(* value and options, a call of Filter leaves the source's Data (each      *)
(* row's field map included), ExpireAt, Keys, the four typed indexes and   *)
(* TTL as they were; each row of the result is a copy of the field map of  *)
(* the source row it came from, and removing or inserting rows in the      *)
(* result afterwards leaves the source unchanged as well.                  *)
(***************************************************************************)
SameStore(s1, s2) ==
    /\ s1.Data = s2.Data /\ s1.ExpireAt = s2.ExpireAt /\ s1.Keys = s2.Keys
    /\ \A t \in KeyTypes : IndexOf(s1, t) = IndexOf(s2, t)
    /\ s1.TTL = s2.TTL

C32_Copies ==
    /\ DOMAIN res'.store.Data = 1..Len(res'.hits)
    /\ \A i \in 1..Len(res'.hits) :
          res'.hits[i] \in DOMAIN d.Data => res'.store.Data[i] = d.Data[res'.hits[i]]

HitSet(hits) == {hits[i] : i \in 1..Len(hits)}

C33_FilterDeterministic ==
    [][\A q \in PatternQueries :
          Filter(q) =>
              \A order \in Orders(FilterKeys(d, q.key)) :
                  HitSet(FilterHitsIn(d, q.operator, order, q.value, q.insensitive))
                      = HitSet(res'.hits)]_vars


(***************************************************************************)
(* C34.  Negated operators are complements: for a literal committed field  *)
(* f and each pair (Equals, NotEquals), (InList, NotInList), (Between,     *)
(* NotBetween), (RegExp, NotRegExp), (InCIDR, NotInCIDR), (Contains,       *)
(* NotContains), (StartsWith, NotStartsWith), (EndsWith, NotEndsWith)      *)
(* applicable to the type of f, with a well-typed and valid value, the two *)
(* results partition the live rows that carry f: each such row is in       *)
(* exactly one of them, once, and nothing else is in either.               *)
(***************************************************************************)
Pair(op, notOp, key, value) == [op |-> op, notOp |-> notOp, key |-> key, value |-> value]

ComplementPairs ==
    { Pair(Equals, NotEquals, "n", ArgFloat64(1)),
      Pair(InList, NotInList, "n", ArgFloat64s(<<1>>)),
      Pair(Between, NotBetween, "n", ArgFloat64s(<<1, 1>>)),
      Pair(Equals, NotEquals, "s", ArgString("Xy")),
      Pair(InList, NotInList, "s", ArgStrings(<<"xy">>)),
      Pair(RegExp, NotRegExp, "s", ArgString("^X")),
      Pair(InCIDR, NotInCIDR, "s", ArgString("10.0.0.0/8")),
      Pair(Contains, NotContains, "s", ArgString("y")),
      Pair(StartsWith, NotStartsWith, "s", ArgString("X")),
      Pair(EndsWith, NotEndsWith, "s", ArgString("y")),
      Pair(Equals, NotEquals, "b", ArgBool(TRUE)),
      Pair(Between, NotBetween, "t", ArgTimes(<<1, 1>>)) }

Times_(hits, r) == Cardinality({i \in 1..Len(hits) : hits[i] = r})

Partitioned(p) ==
    LET in == FilterHits(d, p.op, p.key, p.value, FALSE)
        out == FilterHits(d, p.notOp, p.key, p.value, FALSE)
    IN /\ \A r \in CarriersOf(p.key) : Times_(in, r) + Times_(out, r) = 1
       /\ HitSet(in) \cup HitSet(out) \subseteq CarriersOf(p.key)

C34_NegatedComplements ==
    \A p \in ComplementPairs :
        (/\ p.key \in DOMAIN d.Keys
         /\ Applicable(d.Keys[p.key], p.op)
         /\ ValueOk(d.Keys[p.key], p.op, p.value)) => Partitioned(p)


(***************************************************************************)
(* C35.  Append is read-only on its argument: each iteration of            *)
(* d.Append(other, tag) leaves other's Data (each row's field map          *)
(* included), ExpireAt, Keys and indexes as they were; no row of other     *)
(* gains a "key" field, and other stays forward consistent.                *)
(***************************************************************************)
C35_AppendReadOnly ==
    [][AppendRow =>
          /\ SameStore(df', df)
          /\ \A r \in DOMAIN df.Data :
                "key" \notin DOMAIN df.Data[r] => "key" \notin DOMAIN df'.Data[r]
          /\ ForwardConsistent(df) => ForwardConsistent(df')]_vars


(***************************************************************************)
(* C36.  Append never deadlocks: d.Append(d, tag) returns, and             *)
(* a.Append(b, x) running together with b.Append(a, y) both return: there  *)
(* is no state in which every caller inside Append waits for a write lock  *)
(* that cannot be granted.                                                 *)
(***************************************************************************)
AllBlocked ==
    /\ \E p \in Procs : ap.pc[p] # "idle"
    /\ \A p \in Procs :
          ap.pc[p] # "idle" => (ap.pc[p] = "lock" /\ ~LockGranted(ap.recv[p]))

C36_AppendNeverDeadlocks == ~AllBlocked


(***************************************************************************)
(* C37.  The size counter of the regex cache matches its contents: in      *)
(* every state reached by interleavings of concurrent getCompiledRegex     *)
(* calls, ClearRegexCache and Load, outside the writes of ClearRegexCache  *)
(* and Load themselves, regexCacheSize is the number of entries of         *)
(* regexCache, also when two callers miss on the same pattern at once.     *)
(***************************************************************************)
C37_CacheSizeMatches ==
    (~rx.clearing /\ rx.load.phase = "idle") => rx.size = Cardinality(rx.cache)


C39_OnlyExpired(id) ==
    /\ DOMAIN d.Data \ DOMAIN d'.Data \subseteq {id}
    /\ id \in DOMAIN d.Data =>
           id \in DOMAIN d.ExpireAt /\ d.ExpireAt[id] < scanNow

\* The reaper's removal of an id that is no longer a row changes nothing.
C39_RemovedUntouched(id) ==
    (id \notin DOMAIN d.Data /\ id \notin DOMAIN d.ExpireAt) => d' = d

C39_ReaperOnlyExpired ==
    [][CleanExpiredRemove =>
          C39_OnlyExpired(last'.id) /\ C39_RemovedUntouched(last'.id)]_vars


====
